---- MODULE Spec2Model ----
(***************************************************************************)
(* Certificate vendor: CertificateService (get, getWithCsr, ack) with the  *)
(* AWS IoT registry, S3, SSM, ACM PCA and the MQTT response channel as     *)
(* collaborators.  Every awaited collaborator call is one step of an       *)
(* invocation; a call either succeeds or throws.  PresignedUrlsService     *)
(* (generateForUpload, generateForDownload) and the ACMPCA client factory  *)
(* of the provisioning service are modelled in their own state variables   *)
(* and specifications.                                                     *)
(***************************************************************************)
EXTENDS Integers, Sequences, FiniteSets, TLC

VARIABLES
    cfg,            \* injected configuration of the service (constructor)
    certs,          \* registry: certificate id -> "absent" | "ACTIVE" | "INACTIVE" | "deleted"
    principals,     \* registry: set of <<thingName, certificate id>> (thing principals)
    policies,       \* registry: certificate id -> set of attached policy names
    rotateGroup,    \* registry: things in the rotate-certificates thing group
    assetStatus,    \* asset library: things whose status was updated
    inv,            \* invocation slot -> state of the public operation running in it
    started,        \* number of invocations started so far
    presigned,      \* state of the PresignedUrlsService request being served
    factory         \* the ACMPCA client factory: container binding, token expiry, clock

vars ==
    <<cfg, certs, principals, policies, rotateGroup, assetStatus, inv, started,
      presigned, factory>>

\* the state of the two other components, which CertificateService never touches
otherVars == <<presigned, factory>>

registryVars == <<certs, principals, policies, rotateGroup, assetStatus>>

(***************************************************************************)
(* Bounds                                                                  *)
(***************************************************************************)
\* invocations started in one behaviour
MaxInvocations == 2

Procs == {1, 2}

Devices == {"d1", "d2"}

(***************************************************************************)
(* Strings that the code searches or splits are sequences of characters.   *)
(***************************************************************************)
Undef == <<"undefined">>

UndefS == "undefined"

\* JS truthiness of an optional string
Truthy(s) == s # Undef /\ s # <<>>

\* String.prototype.includes
Includes(s, t) ==
    \E i \in 0..(Len(s) - Len(t)) : SubSeq(s, i + 1, i + Len(t)) = t

\* position of the first '/' at or after i, or Len(s)+1
RECURSIVE NextSlash(_, _)
NextSlash(s, i) ==
    IF i > Len(s) THEN Len(s) + 1
    ELSE IF s[i] = "/" THEN i
    ELSE NextSlash(s, i + 1)

\* s.split('/')[1]
SplitSlash1(s) ==
    LET a == NextSlash(s, 1)
    IN IF a > Len(s) THEN Undef
       ELSE SubSeq(s, a + 1, NextSlash(s, a + 1) - 1)

\* `arn:aws:iot:${region}:${accountId}:cert` with region "r", account "9"
ArnPrefix ==
    <<"a","r","n",":","a","w","s",":","i","o","t",":","r",":","9",":","c","e","r","t">>

\* `arn:aws:iot:${this.region}:${this.accountId}:cert/${certId}`
CertArn(id) == ArnPrefix \o <<"/">> \o id

\* the registry's view of an ARN: the certificate id it names
ArnId(arn) == SubSeq(arn, Len(ArnPrefix) + 2, Len(arn))

(***************************************************************************)
(* Universe of the registry                                                *)
(***************************************************************************)
NumCerts == 5

Digit == <<"0", "1", "2", "3", "4", "5", "6">>

\* certificate ids f0, f1, ... known to the registry or still to be issued
CertIds == { <<"f", Digit[i]>> : i \in 1..NumCerts }

RotatedPolicy == "policy-default"

PolicyNames == { "policy-default", "policy-a" }

\* permutations of a finite set, as sequences
Perms(S) ==
    { f \in [1..Cardinality(S) -> S] : \A i, j \in 1..Cardinality(S) : i # j => f[i] # f[j] }

Range(q) == { q[i] : i \in 1..Len(q) }

(***************************************************************************)
(* Configuration and request parameters                                    *)
(***************************************************************************)
S3Bucket == "certificates-bucket"

PresignedUrlExpiresInSeconds == 300

MqttGetSuccessTopic == "get/accepted"

MqttGetFailureTopic == "get/rejected"

MqttAckSuccessTopic == "ack/accepted"

MqttAckFailureTopic == "ack/rejected"

\* CA_CERTIFICATE_ID of the deployment, here "ca-default"
CaCertificateId == <<"c","a","-","d","e","f","a","u","l","t">>

\* ACM_PCA_CA_ARN of the deployment, here "pca-default"
AcmpcaCaArn == <<"p","c","a","-","d","e","f","a","u","l","t">>

\* A string is a sequence of code points: an ASCII character stands for itself, any
\* other code point is written in hexadecimal, "u00df" for U+00DF.
\* The code points that String.prototype.toUpperCase changes, each with its upper-case
\* mapping (the full, locale-independent case mapping of Unicode 17.0: UnicodeData and
\* the unconditional entries of SpecialCasing); a mapping can be longer than one
\* code point.  A runtime built on an older Unicode version leaves the code points
\* that were given a mapping since then unchanged; none of them maps to ASCII.
UpperCaseTable ==
    [a |-> <<"A">>, b |-> <<"B">>, c |-> <<"C">>, d |-> <<"D">>, e |-> <<"E">>, f |-> <<"F">>,
     g |-> <<"G">>, h |-> <<"H">>, i |-> <<"I">>, j |-> <<"J">>, k |-> <<"K">>, l |-> <<"L">>,
     m |-> <<"M">>, n |-> <<"N">>, o |-> <<"O">>, p |-> <<"P">>, q |-> <<"Q">>, r |-> <<"R">>,
     s |-> <<"S">>, t |-> <<"T">>, u |-> <<"U">>, v |-> <<"V">>, w |-> <<"W">>, x |-> <<"X">>,
     y |-> <<"Y">>, z |-> <<"Z">>, u00b5 |-> <<"u039c">>, u00df |-> <<"S", "S">>,
     u00e0 |-> <<"u00c0">>, u00e1 |-> <<"u00c1">>, u00e2 |-> <<"u00c2">>,
     u00e3 |-> <<"u00c3">>, u00e4 |-> <<"u00c4">>, u00e5 |-> <<"u00c5">>,
     u00e6 |-> <<"u00c6">>, u00e7 |-> <<"u00c7">>, u00e8 |-> <<"u00c8">>,
     u00e9 |-> <<"u00c9">>, u00ea |-> <<"u00ca">>, u00eb |-> <<"u00cb">>,
     u00ec |-> <<"u00cc">>, u00ed |-> <<"u00cd">>, u00ee |-> <<"u00ce">>,
     u00ef |-> <<"u00cf">>, u00f0 |-> <<"u00d0">>, u00f1 |-> <<"u00d1">>,
     u00f2 |-> <<"u00d2">>, u00f3 |-> <<"u00d3">>, u00f4 |-> <<"u00d4">>,
     u00f5 |-> <<"u00d5">>, u00f6 |-> <<"u00d6">>, u00f8 |-> <<"u00d8">>,
     u00f9 |-> <<"u00d9">>, u00fa |-> <<"u00da">>, u00fb |-> <<"u00db">>,
     u00fc |-> <<"u00dc">>, u00fd |-> <<"u00dd">>, u00fe |-> <<"u00de">>,
     u00ff |-> <<"u0178">>, u0101 |-> <<"u0100">>, u0103 |-> <<"u0102">>,
     u0105 |-> <<"u0104">>, u0107 |-> <<"u0106">>, u0109 |-> <<"u0108">>,
     u010b |-> <<"u010a">>, u010d |-> <<"u010c">>, u010f |-> <<"u010e">>,
     u0111 |-> <<"u0110">>, u0113 |-> <<"u0112">>, u0115 |-> <<"u0114">>,
     u0117 |-> <<"u0116">>, u0119 |-> <<"u0118">>, u011b |-> <<"u011a">>,
     u011d |-> <<"u011c">>, u011f |-> <<"u011e">>, u0121 |-> <<"u0120">>,
     u0123 |-> <<"u0122">>, u0125 |-> <<"u0124">>, u0127 |-> <<"u0126">>,
     u0129 |-> <<"u0128">>, u012b |-> <<"u012a">>, u012d |-> <<"u012c">>,
     u012f |-> <<"u012e">>, u0131 |-> <<"I">>, u0133 |-> <<"u0132">>, u0135 |-> <<"u0134">>,
     u0137 |-> <<"u0136">>, u013a |-> <<"u0139">>, u013c |-> <<"u013b">>,
     u013e |-> <<"u013d">>, u0140 |-> <<"u013f">>, u0142 |-> <<"u0141">>,
     u0144 |-> <<"u0143">>, u0146 |-> <<"u0145">>, u0148 |-> <<"u0147">>,
     u0149 |-> <<"u02bc", "N">>, u014b |-> <<"u014a">>, u014d |-> <<"u014c">>,
     u014f |-> <<"u014e">>, u0151 |-> <<"u0150">>, u0153 |-> <<"u0152">>,
     u0155 |-> <<"u0154">>, u0157 |-> <<"u0156">>, u0159 |-> <<"u0158">>,
     u015b |-> <<"u015a">>, u015d |-> <<"u015c">>, u015f |-> <<"u015e">>,
     u0161 |-> <<"u0160">>, u0163 |-> <<"u0162">>, u0165 |-> <<"u0164">>,
     u0167 |-> <<"u0166">>, u0169 |-> <<"u0168">>, u016b |-> <<"u016a">>,
     u016d |-> <<"u016c">>, u016f |-> <<"u016e">>, u0171 |-> <<"u0170">>,
     u0173 |-> <<"u0172">>, u0175 |-> <<"u0174">>, u0177 |-> <<"u0176">>,
     u017a |-> <<"u0179">>, u017c |-> <<"u017b">>, u017e |-> <<"u017d">>, u017f |-> <<"S">>,
     u0180 |-> <<"u0243">>, u0183 |-> <<"u0182">>, u0185 |-> <<"u0184">>,
     u0188 |-> <<"u0187">>, u018c |-> <<"u018b">>, u0192 |-> <<"u0191">>,
     u0195 |-> <<"u01f6">>, u0199 |-> <<"u0198">>, u019a |-> <<"u023d">>,
     u019b |-> <<"ua7dc">>, u019e |-> <<"u0220">>, u01a1 |-> <<"u01a0">>,
     u01a3 |-> <<"u01a2">>, u01a5 |-> <<"u01a4">>, u01a8 |-> <<"u01a7">>,
     u01ad |-> <<"u01ac">>, u01b0 |-> <<"u01af">>, u01b4 |-> <<"u01b3">>,
     u01b6 |-> <<"u01b5">>, u01b9 |-> <<"u01b8">>, u01bd |-> <<"u01bc">>,
     u01bf |-> <<"u01f7">>, u01c5 |-> <<"u01c4">>, u01c6 |-> <<"u01c4">>,
     u01c8 |-> <<"u01c7">>, u01c9 |-> <<"u01c7">>, u01cb |-> <<"u01ca">>,
     u01cc |-> <<"u01ca">>, u01ce |-> <<"u01cd">>, u01d0 |-> <<"u01cf">>,
     u01d2 |-> <<"u01d1">>, u01d4 |-> <<"u01d3">>, u01d6 |-> <<"u01d5">>,
     u01d8 |-> <<"u01d7">>, u01da |-> <<"u01d9">>, u01dc |-> <<"u01db">>,
     u01dd |-> <<"u018e">>, u01df |-> <<"u01de">>, u01e1 |-> <<"u01e0">>,
     u01e3 |-> <<"u01e2">>, u01e5 |-> <<"u01e4">>, u01e7 |-> <<"u01e6">>,
     u01e9 |-> <<"u01e8">>, u01eb |-> <<"u01ea">>, u01ed |-> <<"u01ec">>,
     u01ef |-> <<"u01ee">>, u01f0 |-> <<"J", "u030c">>, u01f2 |-> <<"u01f1">>,
     u01f3 |-> <<"u01f1">>, u01f5 |-> <<"u01f4">>, u01f9 |-> <<"u01f8">>,
     u01fb |-> <<"u01fa">>, u01fd |-> <<"u01fc">>, u01ff |-> <<"u01fe">>,
     u0201 |-> <<"u0200">>, u0203 |-> <<"u0202">>, u0205 |-> <<"u0204">>,
     u0207 |-> <<"u0206">>, u0209 |-> <<"u0208">>, u020b |-> <<"u020a">>,
     u020d |-> <<"u020c">>, u020f |-> <<"u020e">>, u0211 |-> <<"u0210">>,
     u0213 |-> <<"u0212">>, u0215 |-> <<"u0214">>, u0217 |-> <<"u0216">>,
     u0219 |-> <<"u0218">>, u021b |-> <<"u021a">>, u021d |-> <<"u021c">>,
     u021f |-> <<"u021e">>, u0223 |-> <<"u0222">>, u0225 |-> <<"u0224">>,
     u0227 |-> <<"u0226">>, u0229 |-> <<"u0228">>, u022b |-> <<"u022a">>,
     u022d |-> <<"u022c">>, u022f |-> <<"u022e">>, u0231 |-> <<"u0230">>,
     u0233 |-> <<"u0232">>, u023c |-> <<"u023b">>, u023f |-> <<"u2c7e">>,
     u0240 |-> <<"u2c7f">>, u0242 |-> <<"u0241">>, u0247 |-> <<"u0246">>,
     u0249 |-> <<"u0248">>, u024b |-> <<"u024a">>, u024d |-> <<"u024c">>,
     u024f |-> <<"u024e">>, u0250 |-> <<"u2c6f">>, u0251 |-> <<"u2c6d">>,
     u0252 |-> <<"u2c70">>, u0253 |-> <<"u0181">>, u0254 |-> <<"u0186">>,
     u0256 |-> <<"u0189">>, u0257 |-> <<"u018a">>, u0259 |-> <<"u018f">>,
     u025b |-> <<"u0190">>, u025c |-> <<"ua7ab">>, u0260 |-> <<"u0193">>,
     u0261 |-> <<"ua7ac">>, u0263 |-> <<"u0194">>, u0264 |-> <<"ua7cb">>,
     u0265 |-> <<"ua78d">>, u0266 |-> <<"ua7aa">>, u0268 |-> <<"u0197">>,
     u0269 |-> <<"u0196">>, u026a |-> <<"ua7ae">>, u026b |-> <<"u2c62">>,
     u026c |-> <<"ua7ad">>, u026f |-> <<"u019c">>, u0271 |-> <<"u2c6e">>,
     u0272 |-> <<"u019d">>, u0275 |-> <<"u019f">>, u027d |-> <<"u2c64">>,
     u0280 |-> <<"u01a6">>, u0282 |-> <<"ua7c5">>, u0283 |-> <<"u01a9">>,
     u0287 |-> <<"ua7b1">>, u0288 |-> <<"u01ae">>, u0289 |-> <<"u0244">>,
     u028a |-> <<"u01b1">>, u028b |-> <<"u01b2">>, u028c |-> <<"u0245">>,
     u0292 |-> <<"u01b7">>, u029d |-> <<"ua7b2">>, u029e |-> <<"ua7b0">>,
     u0345 |-> <<"u0399">>, u0371 |-> <<"u0370">>, u0373 |-> <<"u0372">>,
     u0377 |-> <<"u0376">>, u037b |-> <<"u03fd">>, u037c |-> <<"u03fe">>,
     u037d |-> <<"u03ff">>, u0390 |-> <<"u0399", "u0308", "u0301">>, u03ac |-> <<"u0386">>,
     u03ad |-> <<"u0388">>, u03ae |-> <<"u0389">>, u03af |-> <<"u038a">>,
     u03b0 |-> <<"u03a5", "u0308", "u0301">>, u03b1 |-> <<"u0391">>, u03b2 |-> <<"u0392">>,
     u03b3 |-> <<"u0393">>, u03b4 |-> <<"u0394">>, u03b5 |-> <<"u0395">>,
     u03b6 |-> <<"u0396">>, u03b7 |-> <<"u0397">>, u03b8 |-> <<"u0398">>,
     u03b9 |-> <<"u0399">>, u03ba |-> <<"u039a">>, u03bb |-> <<"u039b">>,
     u03bc |-> <<"u039c">>, u03bd |-> <<"u039d">>, u03be |-> <<"u039e">>,
     u03bf |-> <<"u039f">>, u03c0 |-> <<"u03a0">>, u03c1 |-> <<"u03a1">>,
     u03c2 |-> <<"u03a3">>, u03c3 |-> <<"u03a3">>, u03c4 |-> <<"u03a4">>,
     u03c5 |-> <<"u03a5">>, u03c6 |-> <<"u03a6">>, u03c7 |-> <<"u03a7">>,
     u03c8 |-> <<"u03a8">>, u03c9 |-> <<"u03a9">>, u03ca |-> <<"u03aa">>,
     u03cb |-> <<"u03ab">>, u03cc |-> <<"u038c">>, u03cd |-> <<"u038e">>,
     u03ce |-> <<"u038f">>, u03d0 |-> <<"u0392">>, u03d1 |-> <<"u0398">>,
     u03d5 |-> <<"u03a6">>, u03d6 |-> <<"u03a0">>, u03d7 |-> <<"u03cf">>,
     u03d9 |-> <<"u03d8">>, u03db |-> <<"u03da">>, u03dd |-> <<"u03dc">>,
     u03df |-> <<"u03de">>, u03e1 |-> <<"u03e0">>, u03e3 |-> <<"u03e2">>,
     u03e5 |-> <<"u03e4">>, u03e7 |-> <<"u03e6">>, u03e9 |-> <<"u03e8">>,
     u03eb |-> <<"u03ea">>, u03ed |-> <<"u03ec">>, u03ef |-> <<"u03ee">>,
     u03f0 |-> <<"u039a">>, u03f1 |-> <<"u03a1">>, u03f2 |-> <<"u03f9">>,
     u03f3 |-> <<"u037f">>, u03f5 |-> <<"u0395">>, u03f8 |-> <<"u03f7">>,
     u03fb |-> <<"u03fa">>, u0430 |-> <<"u0410">>, u0431 |-> <<"u0411">>,
     u0432 |-> <<"u0412">>, u0433 |-> <<"u0413">>, u0434 |-> <<"u0414">>,
     u0435 |-> <<"u0415">>, u0436 |-> <<"u0416">>, u0437 |-> <<"u0417">>,
     u0438 |-> <<"u0418">>, u0439 |-> <<"u0419">>, u043a |-> <<"u041a">>,
     u043b |-> <<"u041b">>, u043c |-> <<"u041c">>, u043d |-> <<"u041d">>,
     u043e |-> <<"u041e">>, u043f |-> <<"u041f">>, u0440 |-> <<"u0420">>,
     u0441 |-> <<"u0421">>, u0442 |-> <<"u0422">>, u0443 |-> <<"u0423">>,
     u0444 |-> <<"u0424">>, u0445 |-> <<"u0425">>, u0446 |-> <<"u0426">>,
     u0447 |-> <<"u0427">>, u0448 |-> <<"u0428">>, u0449 |-> <<"u0429">>,
     u044a |-> <<"u042a">>, u044b |-> <<"u042b">>, u044c |-> <<"u042c">>,
     u044d |-> <<"u042d">>, u044e |-> <<"u042e">>, u044f |-> <<"u042f">>,
     u0450 |-> <<"u0400">>, u0451 |-> <<"u0401">>, u0452 |-> <<"u0402">>,
     u0453 |-> <<"u0403">>, u0454 |-> <<"u0404">>, u0455 |-> <<"u0405">>,
     u0456 |-> <<"u0406">>, u0457 |-> <<"u0407">>, u0458 |-> <<"u0408">>,
     u0459 |-> <<"u0409">>, u045a |-> <<"u040a">>, u045b |-> <<"u040b">>,
     u045c |-> <<"u040c">>, u045d |-> <<"u040d">>, u045e |-> <<"u040e">>,
     u045f |-> <<"u040f">>, u0461 |-> <<"u0460">>, u0463 |-> <<"u0462">>,
     u0465 |-> <<"u0464">>, u0467 |-> <<"u0466">>, u0469 |-> <<"u0468">>,
     u046b |-> <<"u046a">>, u046d |-> <<"u046c">>, u046f |-> <<"u046e">>,
     u0471 |-> <<"u0470">>, u0473 |-> <<"u0472">>, u0475 |-> <<"u0474">>,
     u0477 |-> <<"u0476">>, u0479 |-> <<"u0478">>, u047b |-> <<"u047a">>,
     u047d |-> <<"u047c">>, u047f |-> <<"u047e">>, u0481 |-> <<"u0480">>,
     u048b |-> <<"u048a">>, u048d |-> <<"u048c">>, u048f |-> <<"u048e">>,
     u0491 |-> <<"u0490">>, u0493 |-> <<"u0492">>, u0495 |-> <<"u0494">>,
     u0497 |-> <<"u0496">>, u0499 |-> <<"u0498">>, u049b |-> <<"u049a">>,
     u049d |-> <<"u049c">>, u049f |-> <<"u049e">>, u04a1 |-> <<"u04a0">>,
     u04a3 |-> <<"u04a2">>, u04a5 |-> <<"u04a4">>, u04a7 |-> <<"u04a6">>,
     u04a9 |-> <<"u04a8">>, u04ab |-> <<"u04aa">>, u04ad |-> <<"u04ac">>,
     u04af |-> <<"u04ae">>, u04b1 |-> <<"u04b0">>, u04b3 |-> <<"u04b2">>,
     u04b5 |-> <<"u04b4">>, u04b7 |-> <<"u04b6">>, u04b9 |-> <<"u04b8">>,
     u04bb |-> <<"u04ba">>, u04bd |-> <<"u04bc">>, u04bf |-> <<"u04be">>,
     u04c2 |-> <<"u04c1">>, u04c4 |-> <<"u04c3">>, u04c6 |-> <<"u04c5">>,
     u04c8 |-> <<"u04c7">>, u04ca |-> <<"u04c9">>, u04cc |-> <<"u04cb">>,
     u04ce |-> <<"u04cd">>, u04cf |-> <<"u04c0">>, u04d1 |-> <<"u04d0">>,
     u04d3 |-> <<"u04d2">>, u04d5 |-> <<"u04d4">>, u04d7 |-> <<"u04d6">>,
     u04d9 |-> <<"u04d8">>, u04db |-> <<"u04da">>, u04dd |-> <<"u04dc">>,
     u04df |-> <<"u04de">>, u04e1 |-> <<"u04e0">>, u04e3 |-> <<"u04e2">>,
     u04e5 |-> <<"u04e4">>, u04e7 |-> <<"u04e6">>, u04e9 |-> <<"u04e8">>,
     u04eb |-> <<"u04ea">>, u04ed |-> <<"u04ec">>, u04ef |-> <<"u04ee">>,
     u04f1 |-> <<"u04f0">>, u04f3 |-> <<"u04f2">>, u04f5 |-> <<"u04f4">>,
     u04f7 |-> <<"u04f6">>, u04f9 |-> <<"u04f8">>, u04fb |-> <<"u04fa">>,
     u04fd |-> <<"u04fc">>, u04ff |-> <<"u04fe">>, u0501 |-> <<"u0500">>,
     u0503 |-> <<"u0502">>, u0505 |-> <<"u0504">>, u0507 |-> <<"u0506">>,
     u0509 |-> <<"u0508">>, u050b |-> <<"u050a">>, u050d |-> <<"u050c">>,
     u050f |-> <<"u050e">>, u0511 |-> <<"u0510">>, u0513 |-> <<"u0512">>,
     u0515 |-> <<"u0514">>, u0517 |-> <<"u0516">>, u0519 |-> <<"u0518">>,
     u051b |-> <<"u051a">>, u051d |-> <<"u051c">>, u051f |-> <<"u051e">>,
     u0521 |-> <<"u0520">>, u0523 |-> <<"u0522">>, u0525 |-> <<"u0524">>,
     u0527 |-> <<"u0526">>, u0529 |-> <<"u0528">>, u052b |-> <<"u052a">>,
     u052d |-> <<"u052c">>, u052f |-> <<"u052e">>, u0561 |-> <<"u0531">>,
     u0562 |-> <<"u0532">>, u0563 |-> <<"u0533">>, u0564 |-> <<"u0534">>,
     u0565 |-> <<"u0535">>, u0566 |-> <<"u0536">>, u0567 |-> <<"u0537">>,
     u0568 |-> <<"u0538">>, u0569 |-> <<"u0539">>, u056a |-> <<"u053a">>,
     u056b |-> <<"u053b">>, u056c |-> <<"u053c">>, u056d |-> <<"u053d">>,
     u056e |-> <<"u053e">>, u056f |-> <<"u053f">>, u0570 |-> <<"u0540">>,
     u0571 |-> <<"u0541">>, u0572 |-> <<"u0542">>, u0573 |-> <<"u0543">>,
     u0574 |-> <<"u0544">>, u0575 |-> <<"u0545">>, u0576 |-> <<"u0546">>,
     u0577 |-> <<"u0547">>, u0578 |-> <<"u0548">>, u0579 |-> <<"u0549">>,
     u057a |-> <<"u054a">>, u057b |-> <<"u054b">>, u057c |-> <<"u054c">>,
     u057d |-> <<"u054d">>, u057e |-> <<"u054e">>, u057f |-> <<"u054f">>,
     u0580 |-> <<"u0550">>, u0581 |-> <<"u0551">>, u0582 |-> <<"u0552">>,
     u0583 |-> <<"u0553">>, u0584 |-> <<"u0554">>, u0585 |-> <<"u0555">>,
     u0586 |-> <<"u0556">>, u0587 |-> <<"u0535", "u0552">>, u10d0 |-> <<"u1c90">>,
     u10d1 |-> <<"u1c91">>, u10d2 |-> <<"u1c92">>, u10d3 |-> <<"u1c93">>,
     u10d4 |-> <<"u1c94">>, u10d5 |-> <<"u1c95">>, u10d6 |-> <<"u1c96">>,
     u10d7 |-> <<"u1c97">>, u10d8 |-> <<"u1c98">>, u10d9 |-> <<"u1c99">>,
     u10da |-> <<"u1c9a">>, u10db |-> <<"u1c9b">>, u10dc |-> <<"u1c9c">>,
     u10dd |-> <<"u1c9d">>, u10de |-> <<"u1c9e">>, u10df |-> <<"u1c9f">>,
     u10e0 |-> <<"u1ca0">>, u10e1 |-> <<"u1ca1">>, u10e2 |-> <<"u1ca2">>,
     u10e3 |-> <<"u1ca3">>, u10e4 |-> <<"u1ca4">>, u10e5 |-> <<"u1ca5">>,
     u10e6 |-> <<"u1ca6">>, u10e7 |-> <<"u1ca7">>, u10e8 |-> <<"u1ca8">>,
     u10e9 |-> <<"u1ca9">>, u10ea |-> <<"u1caa">>, u10eb |-> <<"u1cab">>,
     u10ec |-> <<"u1cac">>, u10ed |-> <<"u1cad">>, u10ee |-> <<"u1cae">>,
     u10ef |-> <<"u1caf">>, u10f0 |-> <<"u1cb0">>, u10f1 |-> <<"u1cb1">>,
     u10f2 |-> <<"u1cb2">>, u10f3 |-> <<"u1cb3">>, u10f4 |-> <<"u1cb4">>,
     u10f5 |-> <<"u1cb5">>, u10f6 |-> <<"u1cb6">>, u10f7 |-> <<"u1cb7">>,
     u10f8 |-> <<"u1cb8">>, u10f9 |-> <<"u1cb9">>, u10fa |-> <<"u1cba">>,
     u10fd |-> <<"u1cbd">>, u10fe |-> <<"u1cbe">>, u10ff |-> <<"u1cbf">>,
     u13f8 |-> <<"u13f0">>, u13f9 |-> <<"u13f1">>, u13fa |-> <<"u13f2">>,
     u13fb |-> <<"u13f3">>, u13fc |-> <<"u13f4">>, u13fd |-> <<"u13f5">>,
     u1c80 |-> <<"u0412">>, u1c81 |-> <<"u0414">>, u1c82 |-> <<"u041e">>,
     u1c83 |-> <<"u0421">>, u1c84 |-> <<"u0422">>, u1c85 |-> <<"u0422">>,
     u1c86 |-> <<"u042a">>, u1c87 |-> <<"u0462">>, u1c88 |-> <<"ua64a">>,
     u1d79 |-> <<"ua77d">>, u1d7d |-> <<"u2c63">>, u1d8e |-> <<"ua7c6">>,
     u1e01 |-> <<"u1e00">>, u1e03 |-> <<"u1e02">>, u1e05 |-> <<"u1e04">>,
     u1e07 |-> <<"u1e06">>, u1e09 |-> <<"u1e08">>, u1e0b |-> <<"u1e0a">>,
     u1e0d |-> <<"u1e0c">>, u1e0f |-> <<"u1e0e">>, u1e11 |-> <<"u1e10">>,
     u1e13 |-> <<"u1e12">>, u1e15 |-> <<"u1e14">>, u1e17 |-> <<"u1e16">>,
     u1e19 |-> <<"u1e18">>, u1e1b |-> <<"u1e1a">>, u1e1d |-> <<"u1e1c">>,
     u1e1f |-> <<"u1e1e">>, u1e21 |-> <<"u1e20">>, u1e23 |-> <<"u1e22">>,
     u1e25 |-> <<"u1e24">>, u1e27 |-> <<"u1e26">>, u1e29 |-> <<"u1e28">>,
     u1e2b |-> <<"u1e2a">>, u1e2d |-> <<"u1e2c">>, u1e2f |-> <<"u1e2e">>,
     u1e31 |-> <<"u1e30">>, u1e33 |-> <<"u1e32">>, u1e35 |-> <<"u1e34">>,
     u1e37 |-> <<"u1e36">>, u1e39 |-> <<"u1e38">>, u1e3b |-> <<"u1e3a">>,
     u1e3d |-> <<"u1e3c">>, u1e3f |-> <<"u1e3e">>, u1e41 |-> <<"u1e40">>,
     u1e43 |-> <<"u1e42">>, u1e45 |-> <<"u1e44">>, u1e47 |-> <<"u1e46">>,
     u1e49 |-> <<"u1e48">>, u1e4b |-> <<"u1e4a">>, u1e4d |-> <<"u1e4c">>,
     u1e4f |-> <<"u1e4e">>, u1e51 |-> <<"u1e50">>, u1e53 |-> <<"u1e52">>,
     u1e55 |-> <<"u1e54">>, u1e57 |-> <<"u1e56">>, u1e59 |-> <<"u1e58">>,
     u1e5b |-> <<"u1e5a">>, u1e5d |-> <<"u1e5c">>, u1e5f |-> <<"u1e5e">>,
     u1e61 |-> <<"u1e60">>, u1e63 |-> <<"u1e62">>, u1e65 |-> <<"u1e64">>,
     u1e67 |-> <<"u1e66">>, u1e69 |-> <<"u1e68">>, u1e6b |-> <<"u1e6a">>,
     u1e6d |-> <<"u1e6c">>, u1e6f |-> <<"u1e6e">>, u1e71 |-> <<"u1e70">>,
     u1e73 |-> <<"u1e72">>, u1e75 |-> <<"u1e74">>, u1e77 |-> <<"u1e76">>,
     u1e79 |-> <<"u1e78">>, u1e7b |-> <<"u1e7a">>, u1e7d |-> <<"u1e7c">>,
     u1e7f |-> <<"u1e7e">>, u1e81 |-> <<"u1e80">>, u1e83 |-> <<"u1e82">>,
     u1e85 |-> <<"u1e84">>, u1e87 |-> <<"u1e86">>, u1e89 |-> <<"u1e88">>,
     u1e8b |-> <<"u1e8a">>, u1e8d |-> <<"u1e8c">>, u1e8f |-> <<"u1e8e">>,
     u1e91 |-> <<"u1e90">>, u1e93 |-> <<"u1e92">>, u1e95 |-> <<"u1e94">>,
     u1e96 |-> <<"H", "u0331">>, u1e97 |-> <<"T", "u0308">>, u1e98 |-> <<"W", "u030a">>,
     u1e99 |-> <<"Y", "u030a">>, u1e9a |-> <<"A", "u02be">>, u1e9b |-> <<"u1e60">>,
     u1ea1 |-> <<"u1ea0">>, u1ea3 |-> <<"u1ea2">>, u1ea5 |-> <<"u1ea4">>,
     u1ea7 |-> <<"u1ea6">>, u1ea9 |-> <<"u1ea8">>, u1eab |-> <<"u1eaa">>,
     u1ead |-> <<"u1eac">>, u1eaf |-> <<"u1eae">>, u1eb1 |-> <<"u1eb0">>,
     u1eb3 |-> <<"u1eb2">>, u1eb5 |-> <<"u1eb4">>, u1eb7 |-> <<"u1eb6">>,
     u1eb9 |-> <<"u1eb8">>, u1ebb |-> <<"u1eba">>, u1ebd |-> <<"u1ebc">>,
     u1ebf |-> <<"u1ebe">>, u1ec1 |-> <<"u1ec0">>, u1ec3 |-> <<"u1ec2">>,
     u1ec5 |-> <<"u1ec4">>, u1ec7 |-> <<"u1ec6">>, u1ec9 |-> <<"u1ec8">>,
     u1ecb |-> <<"u1eca">>, u1ecd |-> <<"u1ecc">>, u1ecf |-> <<"u1ece">>,
     u1ed1 |-> <<"u1ed0">>, u1ed3 |-> <<"u1ed2">>, u1ed5 |-> <<"u1ed4">>,
     u1ed7 |-> <<"u1ed6">>, u1ed9 |-> <<"u1ed8">>, u1edb |-> <<"u1eda">>,
     u1edd |-> <<"u1edc">>, u1edf |-> <<"u1ede">>, u1ee1 |-> <<"u1ee0">>,
     u1ee3 |-> <<"u1ee2">>, u1ee5 |-> <<"u1ee4">>, u1ee7 |-> <<"u1ee6">>,
     u1ee9 |-> <<"u1ee8">>, u1eeb |-> <<"u1eea">>, u1eed |-> <<"u1eec">>,
     u1eef |-> <<"u1eee">>, u1ef1 |-> <<"u1ef0">>, u1ef3 |-> <<"u1ef2">>,
     u1ef5 |-> <<"u1ef4">>, u1ef7 |-> <<"u1ef6">>, u1ef9 |-> <<"u1ef8">>,
     u1efb |-> <<"u1efa">>, u1efd |-> <<"u1efc">>, u1eff |-> <<"u1efe">>,
     u1f00 |-> <<"u1f08">>, u1f01 |-> <<"u1f09">>, u1f02 |-> <<"u1f0a">>,
     u1f03 |-> <<"u1f0b">>, u1f04 |-> <<"u1f0c">>, u1f05 |-> <<"u1f0d">>,
     u1f06 |-> <<"u1f0e">>, u1f07 |-> <<"u1f0f">>, u1f10 |-> <<"u1f18">>,
     u1f11 |-> <<"u1f19">>, u1f12 |-> <<"u1f1a">>, u1f13 |-> <<"u1f1b">>,
     u1f14 |-> <<"u1f1c">>, u1f15 |-> <<"u1f1d">>, u1f20 |-> <<"u1f28">>,
     u1f21 |-> <<"u1f29">>, u1f22 |-> <<"u1f2a">>, u1f23 |-> <<"u1f2b">>,
     u1f24 |-> <<"u1f2c">>, u1f25 |-> <<"u1f2d">>, u1f26 |-> <<"u1f2e">>,
     u1f27 |-> <<"u1f2f">>, u1f30 |-> <<"u1f38">>, u1f31 |-> <<"u1f39">>,
     u1f32 |-> <<"u1f3a">>, u1f33 |-> <<"u1f3b">>, u1f34 |-> <<"u1f3c">>,
     u1f35 |-> <<"u1f3d">>, u1f36 |-> <<"u1f3e">>, u1f37 |-> <<"u1f3f">>,
     u1f40 |-> <<"u1f48">>, u1f41 |-> <<"u1f49">>, u1f42 |-> <<"u1f4a">>,
     u1f43 |-> <<"u1f4b">>, u1f44 |-> <<"u1f4c">>, u1f45 |-> <<"u1f4d">>,
     u1f50 |-> <<"u03a5", "u0313">>, u1f51 |-> <<"u1f59">>,
     u1f52 |-> <<"u03a5", "u0313", "u0300">>, u1f53 |-> <<"u1f5b">>,
     u1f54 |-> <<"u03a5", "u0313", "u0301">>, u1f55 |-> <<"u1f5d">>,
     u1f56 |-> <<"u03a5", "u0313", "u0342">>, u1f57 |-> <<"u1f5f">>, u1f60 |-> <<"u1f68">>,
     u1f61 |-> <<"u1f69">>, u1f62 |-> <<"u1f6a">>, u1f63 |-> <<"u1f6b">>,
     u1f64 |-> <<"u1f6c">>, u1f65 |-> <<"u1f6d">>, u1f66 |-> <<"u1f6e">>,
     u1f67 |-> <<"u1f6f">>, u1f70 |-> <<"u1fba">>, u1f71 |-> <<"u1fbb">>,
     u1f72 |-> <<"u1fc8">>, u1f73 |-> <<"u1fc9">>, u1f74 |-> <<"u1fca">>,
     u1f75 |-> <<"u1fcb">>, u1f76 |-> <<"u1fda">>, u1f77 |-> <<"u1fdb">>,
     u1f78 |-> <<"u1ff8">>, u1f79 |-> <<"u1ff9">>, u1f7a |-> <<"u1fea">>,
     u1f7b |-> <<"u1feb">>, u1f7c |-> <<"u1ffa">>, u1f7d |-> <<"u1ffb">>,
     u1f80 |-> <<"u1f08", "u0399">>, u1f81 |-> <<"u1f09", "u0399">>,
     u1f82 |-> <<"u1f0a", "u0399">>, u1f83 |-> <<"u1f0b", "u0399">>,
     u1f84 |-> <<"u1f0c", "u0399">>, u1f85 |-> <<"u1f0d", "u0399">>,
     u1f86 |-> <<"u1f0e", "u0399">>, u1f87 |-> <<"u1f0f", "u0399">>,
     u1f88 |-> <<"u1f08", "u0399">>, u1f89 |-> <<"u1f09", "u0399">>,
     u1f8a |-> <<"u1f0a", "u0399">>, u1f8b |-> <<"u1f0b", "u0399">>,
     u1f8c |-> <<"u1f0c", "u0399">>, u1f8d |-> <<"u1f0d", "u0399">>,
     u1f8e |-> <<"u1f0e", "u0399">>, u1f8f |-> <<"u1f0f", "u0399">>,
     u1f90 |-> <<"u1f28", "u0399">>, u1f91 |-> <<"u1f29", "u0399">>,
     u1f92 |-> <<"u1f2a", "u0399">>, u1f93 |-> <<"u1f2b", "u0399">>,
     u1f94 |-> <<"u1f2c", "u0399">>, u1f95 |-> <<"u1f2d", "u0399">>,
     u1f96 |-> <<"u1f2e", "u0399">>, u1f97 |-> <<"u1f2f", "u0399">>,
     u1f98 |-> <<"u1f28", "u0399">>, u1f99 |-> <<"u1f29", "u0399">>,
     u1f9a |-> <<"u1f2a", "u0399">>, u1f9b |-> <<"u1f2b", "u0399">>,
     u1f9c |-> <<"u1f2c", "u0399">>, u1f9d |-> <<"u1f2d", "u0399">>,
     u1f9e |-> <<"u1f2e", "u0399">>, u1f9f |-> <<"u1f2f", "u0399">>,
     u1fa0 |-> <<"u1f68", "u0399">>, u1fa1 |-> <<"u1f69", "u0399">>,
     u1fa2 |-> <<"u1f6a", "u0399">>, u1fa3 |-> <<"u1f6b", "u0399">>,
     u1fa4 |-> <<"u1f6c", "u0399">>, u1fa5 |-> <<"u1f6d", "u0399">>,
     u1fa6 |-> <<"u1f6e", "u0399">>, u1fa7 |-> <<"u1f6f", "u0399">>,
     u1fa8 |-> <<"u1f68", "u0399">>, u1fa9 |-> <<"u1f69", "u0399">>,
     u1faa |-> <<"u1f6a", "u0399">>, u1fab |-> <<"u1f6b", "u0399">>,
     u1fac |-> <<"u1f6c", "u0399">>, u1fad |-> <<"u1f6d", "u0399">>,
     u1fae |-> <<"u1f6e", "u0399">>, u1faf |-> <<"u1f6f", "u0399">>, u1fb0 |-> <<"u1fb8">>,
     u1fb1 |-> <<"u1fb9">>, u1fb2 |-> <<"u1fba", "u0399">>, u1fb3 |-> <<"u0391", "u0399">>,
     u1fb4 |-> <<"u0386", "u0399">>, u1fb6 |-> <<"u0391", "u0342">>,
     u1fb7 |-> <<"u0391", "u0342", "u0399">>, u1fbc |-> <<"u0391", "u0399">>,
     u1fbe |-> <<"u0399">>, u1fc2 |-> <<"u1fca", "u0399">>, u1fc3 |-> <<"u0397", "u0399">>,
     u1fc4 |-> <<"u0389", "u0399">>, u1fc6 |-> <<"u0397", "u0342">>,
     u1fc7 |-> <<"u0397", "u0342", "u0399">>, u1fcc |-> <<"u0397", "u0399">>,
     u1fd0 |-> <<"u1fd8">>, u1fd1 |-> <<"u1fd9">>, u1fd2 |-> <<"u0399", "u0308", "u0300">>,
     u1fd3 |-> <<"u0399", "u0308", "u0301">>, u1fd6 |-> <<"u0399", "u0342">>,
     u1fd7 |-> <<"u0399", "u0308", "u0342">>, u1fe0 |-> <<"u1fe8">>, u1fe1 |-> <<"u1fe9">>,
     u1fe2 |-> <<"u03a5", "u0308", "u0300">>, u1fe3 |-> <<"u03a5", "u0308", "u0301">>,
     u1fe4 |-> <<"u03a1", "u0313">>, u1fe5 |-> <<"u1fec">>, u1fe6 |-> <<"u03a5", "u0342">>,
     u1fe7 |-> <<"u03a5", "u0308", "u0342">>, u1ff2 |-> <<"u1ffa", "u0399">>,
     u1ff3 |-> <<"u03a9", "u0399">>, u1ff4 |-> <<"u038f", "u0399">>,
     u1ff6 |-> <<"u03a9", "u0342">>, u1ff7 |-> <<"u03a9", "u0342", "u0399">>,
     u1ffc |-> <<"u03a9", "u0399">>, u214e |-> <<"u2132">>, u2170 |-> <<"u2160">>,
     u2171 |-> <<"u2161">>, u2172 |-> <<"u2162">>, u2173 |-> <<"u2163">>,
     u2174 |-> <<"u2164">>, u2175 |-> <<"u2165">>, u2176 |-> <<"u2166">>,
     u2177 |-> <<"u2167">>, u2178 |-> <<"u2168">>, u2179 |-> <<"u2169">>,
     u217a |-> <<"u216a">>, u217b |-> <<"u216b">>, u217c |-> <<"u216c">>,
     u217d |-> <<"u216d">>, u217e |-> <<"u216e">>, u217f |-> <<"u216f">>,
     u2184 |-> <<"u2183">>, u24d0 |-> <<"u24b6">>, u24d1 |-> <<"u24b7">>,
     u24d2 |-> <<"u24b8">>, u24d3 |-> <<"u24b9">>, u24d4 |-> <<"u24ba">>,
     u24d5 |-> <<"u24bb">>, u24d6 |-> <<"u24bc">>, u24d7 |-> <<"u24bd">>,
     u24d8 |-> <<"u24be">>, u24d9 |-> <<"u24bf">>, u24da |-> <<"u24c0">>,
     u24db |-> <<"u24c1">>, u24dc |-> <<"u24c2">>, u24dd |-> <<"u24c3">>,
     u24de |-> <<"u24c4">>, u24df |-> <<"u24c5">>, u24e0 |-> <<"u24c6">>,
     u24e1 |-> <<"u24c7">>, u24e2 |-> <<"u24c8">>, u24e3 |-> <<"u24c9">>,
     u24e4 |-> <<"u24ca">>, u24e5 |-> <<"u24cb">>, u24e6 |-> <<"u24cc">>,
     u24e7 |-> <<"u24cd">>, u24e8 |-> <<"u24ce">>, u24e9 |-> <<"u24cf">>,
     u2c30 |-> <<"u2c00">>, u2c31 |-> <<"u2c01">>, u2c32 |-> <<"u2c02">>,
     u2c33 |-> <<"u2c03">>, u2c34 |-> <<"u2c04">>, u2c35 |-> <<"u2c05">>,
     u2c36 |-> <<"u2c06">>, u2c37 |-> <<"u2c07">>, u2c38 |-> <<"u2c08">>,
     u2c39 |-> <<"u2c09">>, u2c3a |-> <<"u2c0a">>, u2c3b |-> <<"u2c0b">>,
     u2c3c |-> <<"u2c0c">>, u2c3d |-> <<"u2c0d">>, u2c3e |-> <<"u2c0e">>,
     u2c3f |-> <<"u2c0f">>, u2c40 |-> <<"u2c10">>, u2c41 |-> <<"u2c11">>,
     u2c42 |-> <<"u2c12">>, u2c43 |-> <<"u2c13">>, u2c44 |-> <<"u2c14">>,
     u2c45 |-> <<"u2c15">>, u2c46 |-> <<"u2c16">>, u2c47 |-> <<"u2c17">>,
     u2c48 |-> <<"u2c18">>, u2c49 |-> <<"u2c19">>, u2c4a |-> <<"u2c1a">>,
     u2c4b |-> <<"u2c1b">>, u2c4c |-> <<"u2c1c">>, u2c4d |-> <<"u2c1d">>,
     u2c4e |-> <<"u2c1e">>, u2c4f |-> <<"u2c1f">>, u2c50 |-> <<"u2c20">>,
     u2c51 |-> <<"u2c21">>, u2c52 |-> <<"u2c22">>, u2c53 |-> <<"u2c23">>,
     u2c54 |-> <<"u2c24">>, u2c55 |-> <<"u2c25">>, u2c56 |-> <<"u2c26">>,
     u2c57 |-> <<"u2c27">>, u2c58 |-> <<"u2c28">>, u2c59 |-> <<"u2c29">>,
     u2c5a |-> <<"u2c2a">>, u2c5b |-> <<"u2c2b">>, u2c5c |-> <<"u2c2c">>,
     u2c5d |-> <<"u2c2d">>, u2c5e |-> <<"u2c2e">>, u2c5f |-> <<"u2c2f">>,
     u2c61 |-> <<"u2c60">>, u2c65 |-> <<"u023a">>, u2c66 |-> <<"u023e">>,
     u2c68 |-> <<"u2c67">>, u2c6a |-> <<"u2c69">>, u2c6c |-> <<"u2c6b">>,
     u2c73 |-> <<"u2c72">>, u2c76 |-> <<"u2c75">>, u2c81 |-> <<"u2c80">>,
     u2c83 |-> <<"u2c82">>, u2c85 |-> <<"u2c84">>, u2c87 |-> <<"u2c86">>,
     u2c89 |-> <<"u2c88">>, u2c8b |-> <<"u2c8a">>, u2c8d |-> <<"u2c8c">>,
     u2c8f |-> <<"u2c8e">>, u2c91 |-> <<"u2c90">>, u2c93 |-> <<"u2c92">>,
     u2c95 |-> <<"u2c94">>, u2c97 |-> <<"u2c96">>, u2c99 |-> <<"u2c98">>,
     u2c9b |-> <<"u2c9a">>, u2c9d |-> <<"u2c9c">>, u2c9f |-> <<"u2c9e">>,
     u2ca1 |-> <<"u2ca0">>, u2ca3 |-> <<"u2ca2">>, u2ca5 |-> <<"u2ca4">>,
     u2ca7 |-> <<"u2ca6">>, u2ca9 |-> <<"u2ca8">>, u2cab |-> <<"u2caa">>,
     u2cad |-> <<"u2cac">>, u2caf |-> <<"u2cae">>, u2cb1 |-> <<"u2cb0">>,
     u2cb3 |-> <<"u2cb2">>, u2cb5 |-> <<"u2cb4">>, u2cb7 |-> <<"u2cb6">>,
     u2cb9 |-> <<"u2cb8">>, u2cbb |-> <<"u2cba">>, u2cbd |-> <<"u2cbc">>,
     u2cbf |-> <<"u2cbe">>, u2cc1 |-> <<"u2cc0">>, u2cc3 |-> <<"u2cc2">>,
     u2cc5 |-> <<"u2cc4">>, u2cc7 |-> <<"u2cc6">>, u2cc9 |-> <<"u2cc8">>,
     u2ccb |-> <<"u2cca">>, u2ccd |-> <<"u2ccc">>, u2ccf |-> <<"u2cce">>,
     u2cd1 |-> <<"u2cd0">>, u2cd3 |-> <<"u2cd2">>, u2cd5 |-> <<"u2cd4">>,
     u2cd7 |-> <<"u2cd6">>, u2cd9 |-> <<"u2cd8">>, u2cdb |-> <<"u2cda">>,
     u2cdd |-> <<"u2cdc">>, u2cdf |-> <<"u2cde">>, u2ce1 |-> <<"u2ce0">>,
     u2ce3 |-> <<"u2ce2">>, u2cec |-> <<"u2ceb">>, u2cee |-> <<"u2ced">>,
     u2cf3 |-> <<"u2cf2">>, u2d00 |-> <<"u10a0">>, u2d01 |-> <<"u10a1">>,
     u2d02 |-> <<"u10a2">>, u2d03 |-> <<"u10a3">>, u2d04 |-> <<"u10a4">>,
     u2d05 |-> <<"u10a5">>, u2d06 |-> <<"u10a6">>, u2d07 |-> <<"u10a7">>,
     u2d08 |-> <<"u10a8">>, u2d09 |-> <<"u10a9">>, u2d0a |-> <<"u10aa">>,
     u2d0b |-> <<"u10ab">>, u2d0c |-> <<"u10ac">>, u2d0d |-> <<"u10ad">>,
     u2d0e |-> <<"u10ae">>, u2d0f |-> <<"u10af">>, u2d10 |-> <<"u10b0">>,
     u2d11 |-> <<"u10b1">>, u2d12 |-> <<"u10b2">>, u2d13 |-> <<"u10b3">>,
     u2d14 |-> <<"u10b4">>, u2d15 |-> <<"u10b5">>, u2d16 |-> <<"u10b6">>,
     u2d17 |-> <<"u10b7">>, u2d18 |-> <<"u10b8">>, u2d19 |-> <<"u10b9">>,
     u2d1a |-> <<"u10ba">>, u2d1b |-> <<"u10bb">>, u2d1c |-> <<"u10bc">>,
     u2d1d |-> <<"u10bd">>, u2d1e |-> <<"u10be">>, u2d1f |-> <<"u10bf">>,
     u2d20 |-> <<"u10c0">>, u2d21 |-> <<"u10c1">>, u2d22 |-> <<"u10c2">>,
     u2d23 |-> <<"u10c3">>, u2d24 |-> <<"u10c4">>, u2d25 |-> <<"u10c5">>,
     u2d27 |-> <<"u10c7">>, u2d2d |-> <<"u10cd">>, ua641 |-> <<"ua640">>,
     ua643 |-> <<"ua642">>, ua645 |-> <<"ua644">>, ua647 |-> <<"ua646">>,
     ua649 |-> <<"ua648">>, ua64b |-> <<"ua64a">>, ua64d |-> <<"ua64c">>,
     ua64f |-> <<"ua64e">>, ua651 |-> <<"ua650">>, ua653 |-> <<"ua652">>,
     ua655 |-> <<"ua654">>, ua657 |-> <<"ua656">>, ua659 |-> <<"ua658">>,
     ua65b |-> <<"ua65a">>, ua65d |-> <<"ua65c">>, ua65f |-> <<"ua65e">>,
     ua661 |-> <<"ua660">>, ua663 |-> <<"ua662">>, ua665 |-> <<"ua664">>,
     ua667 |-> <<"ua666">>, ua669 |-> <<"ua668">>, ua66b |-> <<"ua66a">>,
     ua66d |-> <<"ua66c">>, ua681 |-> <<"ua680">>, ua683 |-> <<"ua682">>,
     ua685 |-> <<"ua684">>, ua687 |-> <<"ua686">>, ua689 |-> <<"ua688">>,
     ua68b |-> <<"ua68a">>, ua68d |-> <<"ua68c">>, ua68f |-> <<"ua68e">>,
     ua691 |-> <<"ua690">>, ua693 |-> <<"ua692">>, ua695 |-> <<"ua694">>,
     ua697 |-> <<"ua696">>, ua699 |-> <<"ua698">>, ua69b |-> <<"ua69a">>,
     ua723 |-> <<"ua722">>, ua725 |-> <<"ua724">>, ua727 |-> <<"ua726">>,
     ua729 |-> <<"ua728">>, ua72b |-> <<"ua72a">>, ua72d |-> <<"ua72c">>,
     ua72f |-> <<"ua72e">>, ua733 |-> <<"ua732">>, ua735 |-> <<"ua734">>,
     ua737 |-> <<"ua736">>, ua739 |-> <<"ua738">>, ua73b |-> <<"ua73a">>,
     ua73d |-> <<"ua73c">>, ua73f |-> <<"ua73e">>, ua741 |-> <<"ua740">>,
     ua743 |-> <<"ua742">>, ua745 |-> <<"ua744">>, ua747 |-> <<"ua746">>,
     ua749 |-> <<"ua748">>, ua74b |-> <<"ua74a">>, ua74d |-> <<"ua74c">>,
     ua74f |-> <<"ua74e">>, ua751 |-> <<"ua750">>, ua753 |-> <<"ua752">>,
     ua755 |-> <<"ua754">>, ua757 |-> <<"ua756">>, ua759 |-> <<"ua758">>,
     ua75b |-> <<"ua75a">>, ua75d |-> <<"ua75c">>, ua75f |-> <<"ua75e">>,
     ua761 |-> <<"ua760">>, ua763 |-> <<"ua762">>, ua765 |-> <<"ua764">>,
     ua767 |-> <<"ua766">>, ua769 |-> <<"ua768">>, ua76b |-> <<"ua76a">>,
     ua76d |-> <<"ua76c">>, ua76f |-> <<"ua76e">>, ua77a |-> <<"ua779">>,
     ua77c |-> <<"ua77b">>, ua77f |-> <<"ua77e">>, ua781 |-> <<"ua780">>,
     ua783 |-> <<"ua782">>, ua785 |-> <<"ua784">>, ua787 |-> <<"ua786">>,
     ua78c |-> <<"ua78b">>, ua791 |-> <<"ua790">>, ua793 |-> <<"ua792">>,
     ua794 |-> <<"ua7c4">>, ua797 |-> <<"ua796">>, ua799 |-> <<"ua798">>,
     ua79b |-> <<"ua79a">>, ua79d |-> <<"ua79c">>, ua79f |-> <<"ua79e">>,
     ua7a1 |-> <<"ua7a0">>, ua7a3 |-> <<"ua7a2">>, ua7a5 |-> <<"ua7a4">>,
     ua7a7 |-> <<"ua7a6">>, ua7a9 |-> <<"ua7a8">>, ua7b5 |-> <<"ua7b4">>,
     ua7b7 |-> <<"ua7b6">>, ua7b9 |-> <<"ua7b8">>, ua7bb |-> <<"ua7ba">>,
     ua7bd |-> <<"ua7bc">>, ua7bf |-> <<"ua7be">>, ua7c1 |-> <<"ua7c0">>,
     ua7c3 |-> <<"ua7c2">>, ua7c8 |-> <<"ua7c7">>, ua7ca |-> <<"ua7c9">>,
     ua7cd |-> <<"ua7cc">>, ua7d1 |-> <<"ua7d0">>, ua7d7 |-> <<"ua7d6">>,
     ua7d9 |-> <<"ua7d8">>, ua7db |-> <<"ua7da">>, ua7f6 |-> <<"ua7f5">>,
     uab53 |-> <<"ua7b3">>, uab70 |-> <<"u13a0">>, uab71 |-> <<"u13a1">>,
     uab72 |-> <<"u13a2">>, uab73 |-> <<"u13a3">>, uab74 |-> <<"u13a4">>,
     uab75 |-> <<"u13a5">>, uab76 |-> <<"u13a6">>, uab77 |-> <<"u13a7">>,
     uab78 |-> <<"u13a8">>, uab79 |-> <<"u13a9">>, uab7a |-> <<"u13aa">>,
     uab7b |-> <<"u13ab">>, uab7c |-> <<"u13ac">>, uab7d |-> <<"u13ad">>,
     uab7e |-> <<"u13ae">>, uab7f |-> <<"u13af">>, uab80 |-> <<"u13b0">>,
     uab81 |-> <<"u13b1">>, uab82 |-> <<"u13b2">>, uab83 |-> <<"u13b3">>,
     uab84 |-> <<"u13b4">>, uab85 |-> <<"u13b5">>, uab86 |-> <<"u13b6">>,
     uab87 |-> <<"u13b7">>, uab88 |-> <<"u13b8">>, uab89 |-> <<"u13b9">>,
     uab8a |-> <<"u13ba">>, uab8b |-> <<"u13bb">>, uab8c |-> <<"u13bc">>,
     uab8d |-> <<"u13bd">>, uab8e |-> <<"u13be">>, uab8f |-> <<"u13bf">>,
     uab90 |-> <<"u13c0">>, uab91 |-> <<"u13c1">>, uab92 |-> <<"u13c2">>,
     uab93 |-> <<"u13c3">>, uab94 |-> <<"u13c4">>, uab95 |-> <<"u13c5">>,
     uab96 |-> <<"u13c6">>, uab97 |-> <<"u13c7">>, uab98 |-> <<"u13c8">>,
     uab99 |-> <<"u13c9">>, uab9a |-> <<"u13ca">>, uab9b |-> <<"u13cb">>,
     uab9c |-> <<"u13cc">>, uab9d |-> <<"u13cd">>, uab9e |-> <<"u13ce">>,
     uab9f |-> <<"u13cf">>, uaba0 |-> <<"u13d0">>, uaba1 |-> <<"u13d1">>,
     uaba2 |-> <<"u13d2">>, uaba3 |-> <<"u13d3">>, uaba4 |-> <<"u13d4">>,
     uaba5 |-> <<"u13d5">>, uaba6 |-> <<"u13d6">>, uaba7 |-> <<"u13d7">>,
     uaba8 |-> <<"u13d8">>, uaba9 |-> <<"u13d9">>, uabaa |-> <<"u13da">>,
     uabab |-> <<"u13db">>, uabac |-> <<"u13dc">>, uabad |-> <<"u13dd">>,
     uabae |-> <<"u13de">>, uabaf |-> <<"u13df">>, uabb0 |-> <<"u13e0">>,
     uabb1 |-> <<"u13e1">>, uabb2 |-> <<"u13e2">>, uabb3 |-> <<"u13e3">>,
     uabb4 |-> <<"u13e4">>, uabb5 |-> <<"u13e5">>, uabb6 |-> <<"u13e6">>,
     uabb7 |-> <<"u13e7">>, uabb8 |-> <<"u13e8">>, uabb9 |-> <<"u13e9">>,
     uabba |-> <<"u13ea">>, uabbb |-> <<"u13eb">>, uabbc |-> <<"u13ec">>,
     uabbd |-> <<"u13ed">>, uabbe |-> <<"u13ee">>, uabbf |-> <<"u13ef">>,
     ufb00 |-> <<"F", "F">>, ufb01 |-> <<"F", "I">>, ufb02 |-> <<"F", "L">>,
     ufb03 |-> <<"F", "F", "I">>, ufb04 |-> <<"F", "F", "L">>, ufb05 |-> <<"S", "T">>,
     ufb06 |-> <<"S", "T">>, ufb13 |-> <<"u0544", "u0546">>, ufb14 |-> <<"u0544", "u0535">>,
     ufb15 |-> <<"u0544", "u053b">>, ufb16 |-> <<"u054e", "u0546">>,
     ufb17 |-> <<"u0544", "u053d">>, uff41 |-> <<"uff21">>, uff42 |-> <<"uff22">>,
     uff43 |-> <<"uff23">>, uff44 |-> <<"uff24">>, uff45 |-> <<"uff25">>,
     uff46 |-> <<"uff26">>, uff47 |-> <<"uff27">>, uff48 |-> <<"uff28">>,
     uff49 |-> <<"uff29">>, uff4a |-> <<"uff2a">>, uff4b |-> <<"uff2b">>,
     uff4c |-> <<"uff2c">>, uff4d |-> <<"uff2d">>, uff4e |-> <<"uff2e">>,
     uff4f |-> <<"uff2f">>, uff50 |-> <<"uff30">>, uff51 |-> <<"uff31">>,
     uff52 |-> <<"uff32">>, uff53 |-> <<"uff33">>, uff54 |-> <<"uff34">>,
     uff55 |-> <<"uff35">>, uff56 |-> <<"uff36">>, uff57 |-> <<"uff37">>,
     uff58 |-> <<"uff38">>, uff59 |-> <<"uff39">>, uff5a |-> <<"uff3a">>,
     u10428 |-> <<"u10400">>, u10429 |-> <<"u10401">>, u1042a |-> <<"u10402">>,
     u1042b |-> <<"u10403">>, u1042c |-> <<"u10404">>, u1042d |-> <<"u10405">>,
     u1042e |-> <<"u10406">>, u1042f |-> <<"u10407">>, u10430 |-> <<"u10408">>,
     u10431 |-> <<"u10409">>, u10432 |-> <<"u1040a">>, u10433 |-> <<"u1040b">>,
     u10434 |-> <<"u1040c">>, u10435 |-> <<"u1040d">>, u10436 |-> <<"u1040e">>,
     u10437 |-> <<"u1040f">>, u10438 |-> <<"u10410">>, u10439 |-> <<"u10411">>,
     u1043a |-> <<"u10412">>, u1043b |-> <<"u10413">>, u1043c |-> <<"u10414">>,
     u1043d |-> <<"u10415">>, u1043e |-> <<"u10416">>, u1043f |-> <<"u10417">>,
     u10440 |-> <<"u10418">>, u10441 |-> <<"u10419">>, u10442 |-> <<"u1041a">>,
     u10443 |-> <<"u1041b">>, u10444 |-> <<"u1041c">>, u10445 |-> <<"u1041d">>,
     u10446 |-> <<"u1041e">>, u10447 |-> <<"u1041f">>, u10448 |-> <<"u10420">>,
     u10449 |-> <<"u10421">>, u1044a |-> <<"u10422">>, u1044b |-> <<"u10423">>,
     u1044c |-> <<"u10424">>, u1044d |-> <<"u10425">>, u1044e |-> <<"u10426">>,
     u1044f |-> <<"u10427">>, u104d8 |-> <<"u104b0">>, u104d9 |-> <<"u104b1">>,
     u104da |-> <<"u104b2">>, u104db |-> <<"u104b3">>, u104dc |-> <<"u104b4">>,
     u104dd |-> <<"u104b5">>, u104de |-> <<"u104b6">>, u104df |-> <<"u104b7">>,
     u104e0 |-> <<"u104b8">>, u104e1 |-> <<"u104b9">>, u104e2 |-> <<"u104ba">>,
     u104e3 |-> <<"u104bb">>, u104e4 |-> <<"u104bc">>, u104e5 |-> <<"u104bd">>,
     u104e6 |-> <<"u104be">>, u104e7 |-> <<"u104bf">>, u104e8 |-> <<"u104c0">>,
     u104e9 |-> <<"u104c1">>, u104ea |-> <<"u104c2">>, u104eb |-> <<"u104c3">>,
     u104ec |-> <<"u104c4">>, u104ed |-> <<"u104c5">>, u104ee |-> <<"u104c6">>,
     u104ef |-> <<"u104c7">>, u104f0 |-> <<"u104c8">>, u104f1 |-> <<"u104c9">>,
     u104f2 |-> <<"u104ca">>, u104f3 |-> <<"u104cb">>, u104f4 |-> <<"u104cc">>,
     u104f5 |-> <<"u104cd">>, u104f6 |-> <<"u104ce">>, u104f7 |-> <<"u104cf">>,
     u104f8 |-> <<"u104d0">>, u104f9 |-> <<"u104d1">>, u104fa |-> <<"u104d2">>,
     u104fb |-> <<"u104d3">>, u10597 |-> <<"u10570">>, u10598 |-> <<"u10571">>,
     u10599 |-> <<"u10572">>, u1059a |-> <<"u10573">>, u1059b |-> <<"u10574">>,
     u1059c |-> <<"u10575">>, u1059d |-> <<"u10576">>, u1059e |-> <<"u10577">>,
     u1059f |-> <<"u10578">>, u105a0 |-> <<"u10579">>, u105a1 |-> <<"u1057a">>,
     u105a3 |-> <<"u1057c">>, u105a4 |-> <<"u1057d">>, u105a5 |-> <<"u1057e">>,
     u105a6 |-> <<"u1057f">>, u105a7 |-> <<"u10580">>, u105a8 |-> <<"u10581">>,
     u105a9 |-> <<"u10582">>, u105aa |-> <<"u10583">>, u105ab |-> <<"u10584">>,
     u105ac |-> <<"u10585">>, u105ad |-> <<"u10586">>, u105ae |-> <<"u10587">>,
     u105af |-> <<"u10588">>, u105b0 |-> <<"u10589">>, u105b1 |-> <<"u1058a">>,
     u105b3 |-> <<"u1058c">>, u105b4 |-> <<"u1058d">>, u105b5 |-> <<"u1058e">>,
     u105b6 |-> <<"u1058f">>, u105b7 |-> <<"u10590">>, u105b8 |-> <<"u10591">>,
     u105b9 |-> <<"u10592">>, u105bb |-> <<"u10594">>, u105bc |-> <<"u10595">>,
     u10cc0 |-> <<"u10c80">>, u10cc1 |-> <<"u10c81">>, u10cc2 |-> <<"u10c82">>,
     u10cc3 |-> <<"u10c83">>, u10cc4 |-> <<"u10c84">>, u10cc5 |-> <<"u10c85">>,
     u10cc6 |-> <<"u10c86">>, u10cc7 |-> <<"u10c87">>, u10cc8 |-> <<"u10c88">>,
     u10cc9 |-> <<"u10c89">>, u10cca |-> <<"u10c8a">>, u10ccb |-> <<"u10c8b">>,
     u10ccc |-> <<"u10c8c">>, u10ccd |-> <<"u10c8d">>, u10cce |-> <<"u10c8e">>,
     u10ccf |-> <<"u10c8f">>, u10cd0 |-> <<"u10c90">>, u10cd1 |-> <<"u10c91">>,
     u10cd2 |-> <<"u10c92">>, u10cd3 |-> <<"u10c93">>, u10cd4 |-> <<"u10c94">>,
     u10cd5 |-> <<"u10c95">>, u10cd6 |-> <<"u10c96">>, u10cd7 |-> <<"u10c97">>,
     u10cd8 |-> <<"u10c98">>, u10cd9 |-> <<"u10c99">>, u10cda |-> <<"u10c9a">>,
     u10cdb |-> <<"u10c9b">>, u10cdc |-> <<"u10c9c">>, u10cdd |-> <<"u10c9d">>,
     u10cde |-> <<"u10c9e">>, u10cdf |-> <<"u10c9f">>, u10ce0 |-> <<"u10ca0">>,
     u10ce1 |-> <<"u10ca1">>, u10ce2 |-> <<"u10ca2">>, u10ce3 |-> <<"u10ca3">>,
     u10ce4 |-> <<"u10ca4">>, u10ce5 |-> <<"u10ca5">>, u10ce6 |-> <<"u10ca6">>,
     u10ce7 |-> <<"u10ca7">>, u10ce8 |-> <<"u10ca8">>, u10ce9 |-> <<"u10ca9">>,
     u10cea |-> <<"u10caa">>, u10ceb |-> <<"u10cab">>, u10cec |-> <<"u10cac">>,
     u10ced |-> <<"u10cad">>, u10cee |-> <<"u10cae">>, u10cef |-> <<"u10caf">>,
     u10cf0 |-> <<"u10cb0">>, u10cf1 |-> <<"u10cb1">>, u10cf2 |-> <<"u10cb2">>,
     u10d70 |-> <<"u10d50">>, u10d71 |-> <<"u10d51">>, u10d72 |-> <<"u10d52">>,
     u10d73 |-> <<"u10d53">>, u10d74 |-> <<"u10d54">>, u10d75 |-> <<"u10d55">>,
     u10d76 |-> <<"u10d56">>, u10d77 |-> <<"u10d57">>, u10d78 |-> <<"u10d58">>,
     u10d79 |-> <<"u10d59">>, u10d7a |-> <<"u10d5a">>, u10d7b |-> <<"u10d5b">>,
     u10d7c |-> <<"u10d5c">>, u10d7d |-> <<"u10d5d">>, u10d7e |-> <<"u10d5e">>,
     u10d7f |-> <<"u10d5f">>, u10d80 |-> <<"u10d60">>, u10d81 |-> <<"u10d61">>,
     u10d82 |-> <<"u10d62">>, u10d83 |-> <<"u10d63">>, u10d84 |-> <<"u10d64">>,
     u10d85 |-> <<"u10d65">>, u118c0 |-> <<"u118a0">>, u118c1 |-> <<"u118a1">>,
     u118c2 |-> <<"u118a2">>, u118c3 |-> <<"u118a3">>, u118c4 |-> <<"u118a4">>,
     u118c5 |-> <<"u118a5">>, u118c6 |-> <<"u118a6">>, u118c7 |-> <<"u118a7">>,
     u118c8 |-> <<"u118a8">>, u118c9 |-> <<"u118a9">>, u118ca |-> <<"u118aa">>,
     u118cb |-> <<"u118ab">>, u118cc |-> <<"u118ac">>, u118cd |-> <<"u118ad">>,
     u118ce |-> <<"u118ae">>, u118cf |-> <<"u118af">>, u118d0 |-> <<"u118b0">>,
     u118d1 |-> <<"u118b1">>, u118d2 |-> <<"u118b2">>, u118d3 |-> <<"u118b3">>,
     u118d4 |-> <<"u118b4">>, u118d5 |-> <<"u118b5">>, u118d6 |-> <<"u118b6">>,
     u118d7 |-> <<"u118b7">>, u118d8 |-> <<"u118b8">>, u118d9 |-> <<"u118b9">>,
     u118da |-> <<"u118ba">>, u118db |-> <<"u118bb">>, u118dc |-> <<"u118bc">>,
     u118dd |-> <<"u118bd">>, u118de |-> <<"u118be">>, u118df |-> <<"u118bf">>,
     u16e60 |-> <<"u16e40">>, u16e61 |-> <<"u16e41">>, u16e62 |-> <<"u16e42">>,
     u16e63 |-> <<"u16e43">>, u16e64 |-> <<"u16e44">>, u16e65 |-> <<"u16e45">>,
     u16e66 |-> <<"u16e46">>, u16e67 |-> <<"u16e47">>, u16e68 |-> <<"u16e48">>,
     u16e69 |-> <<"u16e49">>, u16e6a |-> <<"u16e4a">>, u16e6b |-> <<"u16e4b">>,
     u16e6c |-> <<"u16e4c">>, u16e6d |-> <<"u16e4d">>, u16e6e |-> <<"u16e4e">>,
     u16e6f |-> <<"u16e4f">>, u16e70 |-> <<"u16e50">>, u16e71 |-> <<"u16e51">>,
     u16e72 |-> <<"u16e52">>, u16e73 |-> <<"u16e53">>, u16e74 |-> <<"u16e54">>,
     u16e75 |-> <<"u16e55">>, u16e76 |-> <<"u16e56">>, u16e77 |-> <<"u16e57">>,
     u16e78 |-> <<"u16e58">>, u16e79 |-> <<"u16e59">>, u16e7a |-> <<"u16e5a">>,
     u16e7b |-> <<"u16e5b">>, u16e7c |-> <<"u16e5c">>, u16e7d |-> <<"u16e5d">>,
     u16e7e |-> <<"u16e5e">>, u16e7f |-> <<"u16e5f">>, u1e922 |-> <<"u1e900">>,
     u1e923 |-> <<"u1e901">>, u1e924 |-> <<"u1e902">>, u1e925 |-> <<"u1e903">>,
     u1e926 |-> <<"u1e904">>, u1e927 |-> <<"u1e905">>, u1e928 |-> <<"u1e906">>,
     u1e929 |-> <<"u1e907">>, u1e92a |-> <<"u1e908">>, u1e92b |-> <<"u1e909">>,
     u1e92c |-> <<"u1e90a">>, u1e92d |-> <<"u1e90b">>, u1e92e |-> <<"u1e90c">>,
     u1e92f |-> <<"u1e90d">>, u1e930 |-> <<"u1e90e">>, u1e931 |-> <<"u1e90f">>,
     u1e932 |-> <<"u1e910">>, u1e933 |-> <<"u1e911">>, u1e934 |-> <<"u1e912">>,
     u1e935 |-> <<"u1e913">>, u1e936 |-> <<"u1e914">>, u1e937 |-> <<"u1e915">>,
     u1e938 |-> <<"u1e916">>, u1e939 |-> <<"u1e917">>, u1e93a |-> <<"u1e918">>,
     u1e93b |-> <<"u1e919">>, u1e93c |-> <<"u1e91a">>, u1e93d |-> <<"u1e91b">>,
     u1e93e |-> <<"u1e91c">>, u1e93f |-> <<"u1e91d">>, u1e940 |-> <<"u1e91e">>,
     u1e941 |-> <<"u1e91f">>, u1e942 |-> <<"u1e920">>, u1e943 |-> <<"u1e921">>,
     u1c8a |-> <<"u1c89">>, ua7cf |-> <<"ua7ce">>, ua7d3 |-> <<"ua7d2">>,
     ua7d5 |-> <<"ua7d4">>, u16ebb |-> <<"u16ea0">>, u16ebc |-> <<"u16ea1">>,
     u16ebd |-> <<"u16ea2">>, u16ebe |-> <<"u16ea3">>, u16ebf |-> <<"u16ea4">>,
     u16ec0 |-> <<"u16ea5">>, u16ec1 |-> <<"u16ea6">>, u16ec2 |-> <<"u16ea7">>,
     u16ec3 |-> <<"u16ea8">>, u16ec4 |-> <<"u16ea9">>, u16ec5 |-> <<"u16eaa">>,
     u16ec6 |-> <<"u16eab">>, u16ec7 |-> <<"u16eac">>, u16ec8 |-> <<"u16ead">>,
     u16ec9 |-> <<"u16eae">>, u16eca |-> <<"u16eaf">>, u16ecb |-> <<"u16eb0">>,
     u16ecc |-> <<"u16eb1">>, u16ecd |-> <<"u16eb2">>, u16ece |-> <<"u16eb3">>,
     u16ecf |-> <<"u16eb4">>, u16ed0 |-> <<"u16eb5">>, u16ed1 |-> <<"u16eb6">>,
     u16ed2 |-> <<"u16eb7">>, u16ed3 |-> <<"u16eb8">>]

\* the upper-case mapping of one code point
UpperCaseOf(c) == IF c \in DOMAIN UpperCaseTable THEN UpperCaseTable[c] ELSE <<c>>

\* String.prototype.toUpperCase
RECURSIVE ToUpperCase(_)
ToUpperCase(s) ==
    IF s = <<>> THEN <<>> ELSE UpperCaseOf(Head(s)) \o ToUpperCase(Tail(s))

\* the environment holds CA_ALIAS1 = "ca-alias1" and PCA_ALIAS1 = "pca-alias1"
\* process.env[`CA_${alias.toUpperCase()}`]
EnvCa(alias) ==
    IF ToUpperCase(alias) = <<"A","L","I","A","S","1">> THEN <<"c","a","-","a","l","i","a","s","1">> ELSE Undef

\* process.env[`PCA_${alias.toUpperCase()}`]
EnvPca(alias) ==
    IF ToUpperCase(alias) = <<"A","L","I","A","S","1">> THEN <<"p","c","a","-","a","l","i","a","s","1">> ELSE Undef

NoParams ==
    [present |-> FALSE, awsiotCaAlias |-> Undef, awsiotCaID |-> Undef,
     acmpcaCaAlias |-> Undef, acmpcaCaArn |-> Undef, certInfo |-> FALSE]

\* identifiers and aliases a request can carry
CaReq == <<"c","a","-","r","e","q">>

PcaReq == <<"p","c","a","-","r","e","q">>

AliasNope == <<"n","o","p","e">>

\* the nine-character text "undefined", an ordinary string to the code
UndefinedText == <<"u","n","d","e","f","i","n","e","d">>

\* request-level ACMPCAParameters offered to getWithCsr
ParamSets ==
    { NoParams,
      [NoParams EXCEPT !.present = TRUE, !.awsiotCaID = CaReq, !.acmpcaCaArn = PcaReq],
      [NoParams EXCEPT !.present = TRUE, !.awsiotCaAlias = <<"a","l","i","a","s","1">>,
                       !.acmpcaCaAlias = <<"a","l","i","a","s","1">>, !.certInfo = TRUE],
      [NoParams EXCEPT !.present = TRUE, !.awsiotCaAlias = <<"A","l","i","a","s","1">>,
                       !.acmpcaCaAlias = <<"a","L","i","A","s","1">>],
      [NoParams EXCEPT !.present = TRUE, !.awsiotCaAlias = <<"a","l","u0131","a","s","1">>,
                       !.acmpcaCaAlias = <<"a","l","i","a","u017f","1">>],
      [NoParams EXCEPT !.present = TRUE, !.awsiotCaAlias = <<"u00df">>,
                       !.acmpcaCaArn = PcaReq],
      [NoParams EXCEPT !.present = TRUE, !.awsiotCaAlias = AliasNope, !.acmpcaCaArn = PcaReq],
      [NoParams EXCEPT !.present = TRUE, !.awsiotCaID = CaReq],
      [NoParams EXCEPT !.present = TRUE, !.awsiotCaID = CaReq, !.acmpcaCaAlias = AliasNope],
      [NoParams EXCEPT !.present = TRUE, !.acmpcaCaAlias = AliasNope],
      [NoParams EXCEPT !.present = TRUE, !.awsiotCaID = <<>>, !.acmpcaCaArn = <<>>],
      [NoParams EXCEPT !.present = TRUE, !.awsiotCaID = UndefinedText,
                       !.acmpcaCaArn = UndefinedText],
      [NoParams EXCEPT !.present = TRUE, !.awsiotCaID = UndefinedText],
      [NoParams EXCEPT !.present = TRUE, !.awsiotCaAlias = UndefinedText,
                       !.acmpcaCaAlias = UndefinedText] }

(***************************************************************************)
(* Invocation state                                                        *)
(***************************************************************************)
\* a presigned URL is identified by what was signed
NoUrl == [operation |-> "none", bucket |-> "", key |-> <<>>, expires |-> 0]

\* PresignedUrlsService before a request
PresignedIdle ==
    [op |-> "none", pc |-> "idle", jobFuture |-> "none", templateFuture |-> "none"]

\* acmPcaStsExpiresAt : Date, undefined until a callback of assumeRole assigns it
NoExpiry == [defined |-> FALSE, at |-> 0]

\* the container and the module state before the first call of the ACMPCA factory;
\* crossAccountRole tells whether ACM_PCA_CROSS_ACCOUNT_ROLE_ARN is set, stsBound
\* whether the container holds a binding for TYPES.STS, raised whether the last call
\* of the ACMPCA factory threw
FactoryStart(crossAccountRole) ==
    [crossAccountRole |-> crossAccountRole, now |-> 0, calls |-> 0,
     bound |-> FALSE, client |-> 0, constructed |-> 0, returned |-> 0,
     acmPcaStsExpiresAt |-> NoExpiry, pending |-> 0, callback |-> "none",
     stsBound |-> FALSE, raised |-> FALSE]

FactoryUnused == FactoryStart(FALSE)

NoResponse ==
    [location |-> NoUrl, certificate |-> Undef, certificateId |-> Undef, message |-> UndefS]

Idle ==
    [op |-> "none", pc |-> "idle", result |-> "none", raised |-> UndefS, err |-> UndefS,
     deviceId |-> "", csr |-> "", previousCertificateId |-> Undef, certId |-> Undef,
     acmpcaParameters |-> NoParams,
     key |-> <<>>, certificateId |-> Undef, presignedUrl |-> NoUrl,
     caCertID |-> Undef, acmCaArn |-> Undef, certInfo |-> FALSE,
     caPem |-> Undef, caKey |-> Undef, issuedArn |-> UndefS,
     certificate |-> Undef, certificateArn |-> Undef,
     params |-> <<>>, thingPrincipals |-> <<>>, principal |-> Undef,
     target |-> Undef, principalPolicies |-> <<>>,
     response |-> NoResponse, calls |-> <<>>]

\* one entry of the collaborator-call log of an invocation
Call(name, ok) ==
    [call |-> name, ok |-> ok, dev |-> "", id |-> <<>>, pol |-> "", topic |-> "",
     status |-> "", ca |-> <<>>, cert |-> <<>>, key |-> <<>>, names |-> <<>>, arns |-> <<>>,
     resp |-> NoResponse]

Log(r, e) == [r EXCEPT !.calls = Append(@, e)]

\* an error thrown inside the try block: control moves to the catch block
Throw(r, msg) == [r EXCEPT !.pc = "catch", !.err = msg]

\* an error that leaves the operation without passing through a catch block
Raise(r, msg) == [r EXCEPT !.pc = "done", !.result = "raised", !.raised = msg]

Set(p, r) == inv' = [inv EXCEPT ![p] = r]

Registered(id) == id \in CertIds /\ certs[id] \in {"ACTIVE", "INACTIVE"}

\* a slot can take a new invocation when it is free
CanStart(p) == inv[p].pc \in {"idle", "done"} /\ started < MaxInvocations

(***************************************************************************)
(* Initial state: the registry before the invocations                      *)
(***************************************************************************)
PreRegistered == { <<"f","0">>, <<"f","1">>, <<"f","2">> }

InitPolicies ==
    [id \in CertIds |->
        IF id = <<"f","0">> THEN {"policy-a"}
        ELSE IF id = <<"f","1">> THEN {"policy-a", "policy-default"}
        ELSE {}]

\* f2 is a staged certificate, registered and not yet activated
InitCerts ==
    [id \in CertIds |->
        IF id \notin PreRegistered THEN "absent"
        ELSE IF id = <<"f","2">> THEN "INACTIVE"
        ELSE "ACTIVE"]

InitPrincipalSets ==
    { {<<"d1", <<"f","0">>>>, <<"d1", <<"f","1">>>>, <<"d1", <<"f","2">>>>, <<"d2", <<"f","2">>>>},
      {<<"d1", <<"f","0">>>>, <<"d1", <<"f","1">>>>, <<"d2", <<"f","0">>>>, <<"d2", <<"f","1">>>>},
      {<<"d1", <<"f","0">>>>, <<"d2", <<"f","1">>>>} }

Configs ==
    [useDefaultPolicy : BOOLEAN, deletePreviousCertificate : BOOLEAN, acmpcaEnabled : BOOLEAN]

Init ==
    /\ cfg \in Configs
    /\ certs = InitCerts
    /\ principals \in InitPrincipalSets
    /\ policies = InitPolicies
    /\ rotateGroup = Devices
    /\ assetStatus = {}
    /\ inv = [p \in Procs |-> Idle]
    /\ started = 0
    /\ presigned = PresignedIdle
    /\ factory = FactoryUnused

(***************************************************************************)
(* get: entry and its own steps                                            *)
(***************************************************************************)
OwDeviceId == "Expected string deviceId to not be empty"

OwString == "Expected string to not be empty"

S3Prefix == "certificates/"

S3Suffix == ".zip"

\* `${this.s3Prefix}${deviceId}${this.s3Suffix}`
S3Key(deviceId) == <<S3Prefix, deviceId, S3Suffix>>

\* get(deviceId) up to its first await
Get(p, deviceId) ==
    /\ CanStart(p)
    /\ started' = started + 1
    /\ LET r == [Idle EXCEPT !.op = "get", !.result = "running", !.deviceId = deviceId]
       IN Set(p, IF deviceId = "" THEN Throw(r, OwDeviceId)
                 ELSE [r EXCEPT !.pc = "isWhitelisted"])
    /\ UNCHANGED <<otherVars, cfg, registryVars>>


\* the values that the certificateid metadata of a staged object can hold
StagedIds == CertIds \cup {<<>>}

\* getCertificateId: s3.headObject and the metadata test.  The catch block rethrows an
\* error whose message is MISSING_CERTIFICATE_ID, the one thrown by the metadata test or
\* one that headObject rejected with (logged with that message as status), and turns
\* every other error into CERTIFICATE_NOT_FOUND
GetCertificateId(p) ==
    LET r == inv[p]
        c(ok) == [Call("headObject", ok) EXCEPT !.key = r.key]
    IN /\ r.pc = "headObject"
       /\ \/ \E id \in StagedIds :
                Set(p, Log([r EXCEPT !.certificateId = id, !.pc = "activateCertificate"],
                           [c(TRUE) EXCEPT !.id = id]))
          \/ Set(p, Log(Throw(r, "MISSING_CERTIFICATE_ID"), [c(TRUE) EXCEPT !.id = Undef]))
          \/ Set(p, Log(Throw(r, "MISSING_CERTIFICATE_ID"),
                         [c(FALSE) EXCEPT !.status = "MISSING_CERTIFICATE_ID"]))
          \/ Set(p, Log(Throw(r, "CERTIFICATE_NOT_FOUND"), c(FALSE)))
       /\ UNCHANGED <<otherVars, cfg, registryVars, started>>

ActivateCertificateAny(p) ==
    LET r == inv[p]
        c(ok, id) == [Call("updateCertificate", ok) EXCEPT !.id = id, !.status = "ACTIVE"]
    IN /\ r.pc = "activateCertificate"
       /\ \/ \E id \in CertIds :
                /\ Registered(id)
                /\ certs' = [certs EXCEPT ![id] = "ACTIVE"]
                /\ Set(p, Log([r EXCEPT !.pc = "generatePresignedUrl"], c(TRUE, id)))
          \/ /\ Set(p, Log(Throw(r, "UNABLE_TO_ACTIVATE_CERTIFICATE"),
                           c(FALSE, r.certificateId)))
             /\ UNCHANGED certs
       /\ UNCHANGED <<otherVars, cfg, principals, policies, rotateGroup, assetStatus, started>>

\* activateCertificate: iot.updateCertificate(certificateId, ACTIVE)
ActivateCertificate(p) ==
    LET r == inv[p]
        c(ok) == [Call("updateCertificate", ok) EXCEPT !.id = r.certificateId, !.status = "ACTIVE"]
    IN /\ r.pc = "activateCertificate"
       /\ \/ /\ Registered(r.certificateId)
             /\ certs' = [certs EXCEPT ![r.certificateId] = "ACTIVE"]
             /\ Set(p, Log([r EXCEPT !.pc = "generatePresignedUrl"], c(TRUE)))
          \/ /\ Set(p, Log(Throw(r, "UNABLE_TO_ACTIVATE_CERTIFICATE"), c(FALSE)))
             /\ UNCHANGED certs
       /\ UNCHANGED <<otherVars, cfg, principals, policies, rotateGroup, assetStatus, started>>

GeneratePresignedUrlSkipStatus(p) ==
    LET r == inv[p]
        c(ok) == [Call("getSignedUrl", ok) EXCEPT !.key = r.key]
        url == [operation |-> "getObject", bucket |-> S3Bucket, key |-> r.key,
                expires |-> PresignedUrlExpiresInSeconds]
    IN /\ r.pc = "generatePresignedUrl"
       /\ \/ Set(p, Log([r EXCEPT !.presignedUrl = url, !.response.location = url,
                                   !.pc = "publishSuccess"], c(TRUE)))
          \/ Set(p, Log(Throw(r, "UNABLE_TO_PRESIGN_URL"), c(FALSE)))
       /\ UNCHANGED <<otherVars, cfg, registryVars, started>>

\* generatePresignedUrl: s3.getSignedUrl('getObject', ...)
GeneratePresignedUrl(p) ==
    LET r == inv[p]
        c(ok) == [Call("getSignedUrl", ok) EXCEPT !.key = r.key]
        url == [operation |-> "getObject", bucket |-> S3Bucket, key |-> r.key,
                expires |-> PresignedUrlExpiresInSeconds]
    IN /\ r.pc = "generatePresignedUrl"
       /\ \/ Set(p, Log([r EXCEPT !.presignedUrl = url, !.pc = "updateAssetStatus"], c(TRUE)))
          \/ Set(p, Log(Throw(r, "UNABLE_TO_PRESIGN_URL"), c(FALSE)))
       /\ UNCHANGED <<otherVars, cfg, registryVars, started>>

(***************************************************************************)
(* getWithCsr: entry, CA selection and issuance                            *)
(***************************************************************************)
\* variant: the request parameters never override the configured identifiers
SelectCaDefaultsOnly(r) ==
    [r EXCEPT !.caCertID = CaCertificateId,
              !.acmCaArn = IF cfg.acmpcaEnabled THEN AcmpcaCaArn ELSE Undef,
              !.certInfo = FALSE,
              !.pc = "describeCACertificate"]

\* variant: an identifier that does not resolve is replaced by the configured default
SelectCaAliasFallback(r) ==
    LET a == r.acmpcaParameters
        caId == IF Truthy(a.awsiotCaAlias) THEN EnvCa(a.awsiotCaAlias) ELSE a.awsiotCaID
        caArn == IF Truthy(a.acmpcaCaAlias) THEN EnvPca(a.acmpcaCaAlias) ELSE a.acmpcaCaArn
        a2 == [a EXCEPT !.awsiotCaID = caId, !.acmpcaCaArn = caArn]
        go(id, arn, info) ==
            [r EXCEPT !.caCertID = id, !.acmCaArn = arn, !.certInfo = info,
                      !.pc = "describeCACertificate"]
    IN IF ~cfg.acmpcaEnabled THEN go(CaCertificateId, Undef, FALSE)
       ELSE IF ~a.present THEN go(CaCertificateId, AcmpcaCaArn, FALSE)
       ELSE [go(IF Truthy(caId) THEN caId ELSE CaCertificateId,
                IF Truthy(caArn) THEN caArn ELSE AcmpcaCaArn,
                a.certInfo) EXCEPT !.acmpcaParameters = a2]

\* the synchronous selection of the CA identifiers after the whitelist check
SelectCa(r) ==
    LET a == r.acmpcaParameters
        caId == IF Truthy(a.awsiotCaAlias) THEN EnvCa(a.awsiotCaAlias) ELSE a.awsiotCaID
        caArn == IF Truthy(a.acmpcaCaAlias) THEN EnvPca(a.acmpcaCaAlias) ELSE a.acmpcaCaArn
        a2 == [a EXCEPT !.awsiotCaID = caId, !.acmpcaCaArn = caArn]
        go(id, arn, info) ==
            [r EXCEPT !.caCertID = id, !.acmCaArn = arn, !.certInfo = info,
                      !.pc = "describeCACertificate"]
    IN IF ~cfg.acmpcaEnabled THEN go(CaCertificateId, Undef, FALSE)
       ELSE IF ~a.present THEN go(CaCertificateId, AcmpcaCaArn, FALSE)
       ELSE IF caId = Undef
            THEN Throw([r EXCEPT !.acmpcaParameters.awsiotCaID = caId],
                       IF Truthy(a.awsiotCaAlias) THEN "Invalid awsiotCaAlias."
                       ELSE "Either awsiotCaAlias or awsiotCaId must be provided")
       ELSE IF caArn = Undef
            THEN Throw([r EXCEPT !.acmpcaParameters = a2],
                       IF Truthy(a.acmpcaCaAlias) THEN "Invalid acmpcaCaAlias."
                       ELSE "Either acmpcaCaAlias or acmpcaCaArn must be provided.")
       ELSE [go(IF Truthy(caId) THEN caId ELSE CaCertificateId,
                IF Truthy(caArn) THEN caArn ELSE AcmpcaCaArn,
                a.certInfo) EXCEPT !.acmpcaParameters = a2]

\* variant: the csr is not validated
GetWithCsrNoCsrCheck(p, deviceId, csr, previousCertificateId, acmpcaParameters) ==
    /\ CanStart(p)
    /\ started' = started + 1
    /\ LET r == [Idle EXCEPT !.op = "getWithCsr", !.result = "running", !.deviceId = deviceId,
                             !.csr = csr, !.previousCertificateId = previousCertificateId,
                             !.acmpcaParameters = acmpcaParameters]
       IN Set(p, IF deviceId = "" THEN Throw(r, OwDeviceId)
                 ELSE [r EXCEPT !.pc = "isWhitelisted"])
    /\ UNCHANGED <<otherVars, cfg, registryVars>>

\* getWithCsr(deviceId, csr, previousCertificateId, acmpcaParameters) up to its first await
GetWithCsr(p, deviceId, csr, previousCertificateId, acmpcaParameters) ==
    /\ CanStart(p)
    /\ started' = started + 1
    /\ LET r == [Idle EXCEPT !.op = "getWithCsr", !.result = "running", !.deviceId = deviceId,
                             !.csr = csr, !.previousCertificateId = previousCertificateId,
                             !.acmpcaParameters = acmpcaParameters]
       IN Set(p, IF deviceId = "" THEN Throw(r, OwDeviceId)
                 ELSE IF csr = "" THEN Throw(r, OwString)
                 ELSE [r EXCEPT !.pc = "isWhitelisted"])
    /\ UNCHANGED <<otherVars, cfg, registryVars>>

(***************************************************************************)
(* ack: entry                                                              *)
(***************************************************************************)
\* ack(deviceId, certId, previousCertificateId) up to its first await
Ack(p, deviceId, certId, previousCertificateId) ==
    /\ CanStart(p)
    /\ started' = started + 1
    /\ LET r == [Idle EXCEPT !.op = "ack", !.result = "running", !.deviceId = deviceId,
                             !.certId = certId,
                             !.previousCertificateId = previousCertificateId]
       IN Set(p, IF deviceId = "" THEN Raise(r, OwDeviceId)
                 ELSE IF ~Truthy(certId) THEN Raise(r, OwString)
                 ELSE [r EXCEPT !.pc = "isWhitelisted"])
    /\ UNCHANGED <<otherVars, cfg, registryVars>>

(***************************************************************************)
(* Steps shared by the three operations                                    *)
(***************************************************************************)
\* variant: the answer of the whitelist check is not tested
IsWhitelistedUnchecked(p) ==
    LET r == inv[p]
        c(ok, ans) == [Call("isWhitelisted", ok) EXCEPT !.dev = r.deviceId, !.status = ans]
        onward == IF r.op = "get"
                    THEN [r EXCEPT !.key = S3Key(r.deviceId), !.pc = "headObject"]
                  ELSE IF r.op = "getWithCsr" THEN SelectCa(r)
                  ELSE [r EXCEPT !.pc = "removeThingFromThingGroup"]
    IN /\ r.pc = "isWhitelisted"
       /\ \/ Set(p, Log(onward, c(TRUE, "true")))
          \/ Set(p, Log(onward, c(TRUE, "false")))
          \/ Set(p, Log(Throw(r, "raw:isWhitelisted"), c(FALSE, "")))
       /\ UNCHANGED <<otherVars, cfg, registryVars, started>>

\* registry.isWhitelisted(deviceId) and the code that follows a true answer
IsWhitelisted(p) ==
    LET r == inv[p]
        c(ok, ans) == [Call("isWhitelisted", ok) EXCEPT !.dev = r.deviceId, !.status = ans]
        onward == IF r.op = "get"
                    THEN [r EXCEPT !.key = S3Key(r.deviceId), !.pc = "headObject"]
                  ELSE IF r.op = "getWithCsr" THEN SelectCa(r)
                  ELSE [r EXCEPT !.pc = "removeThingFromThingGroup"]
    IN /\ r.pc = "isWhitelisted"
       /\ \/ Set(p, Log(onward, c(TRUE, "true")))
          \/ Set(p, Log(Throw(r, "DEVICE_NOT_WHITELISTED"), c(TRUE, "false")))
          \/ Set(p, Log(Throw(r, "raw:isWhitelisted"), c(FALSE, "")))
       /\ UNCHANGED <<otherVars, cfg, registryVars, started>>

\* registry.updateAssetStatus(deviceId) and the filling of the success response
UpdateAssetStatus(p) ==
    LET r == inv[p]
        c(ok) == [Call("updateAssetStatus", ok) EXCEPT !.dev = r.deviceId]
        onward == IF r.op = "get"
                    THEN [r EXCEPT !.response.location = r.presignedUrl, !.pc = "publishSuccess"]
                  ELSE [r EXCEPT !.response.certificate = r.certificate,
                                 !.response.certificateId = SplitSlash1(r.certificateArn),
                                 !.pc = "publishSuccess"]
    IN /\ r.pc = "updateAssetStatus"
       /\ \/ /\ assetStatus' = assetStatus \cup {r.deviceId}
             /\ Set(p, Log(onward, c(TRUE)))
          \/ /\ Set(p, Log(Throw(r, "raw:updateAssetStatus"), c(FALSE)))
             /\ UNCHANGED assetStatus
       /\ UNCHANGED <<otherVars, cfg, certs, principals, policies, rotateGroup, started>>

SuccessTopic(op) == IF op = "ack" THEN MqttAckSuccessTopic ELSE MqttGetSuccessTopic

FailureTopic(op) == IF op = "ack" THEN MqttAckFailureTopic ELSE MqttGetFailureTopic

\* publishResponse on the success topic, the last step of the try block
PublishSuccess(p) ==
    LET r == inv[p]
        c(ok) == [Call("publish", ok) EXCEPT !.topic = SuccessTopic(r.op), !.dev = r.deviceId,
                                             !.resp = r.response]
    IN /\ r.pc = "publishSuccess"
       /\ \/ Set(p, Log([r EXCEPT !.pc = "done", !.result = "returned"], c(TRUE)))
          \/ Set(p, Log(Throw(r, "UNABLE_TO_PUBLISH_RESPONSE"), c(FALSE)))
       /\ UNCHANGED <<otherVars, cfg, registryVars, started>>

\* the catch block: publishResponse on the failure topic, then throw err
PublishFailure(p) ==
    LET r == inv[p]
        r1 == [r EXCEPT !.response.message = r.err]
        c(ok) == [Call("publish", ok) EXCEPT !.topic = FailureTopic(r.op), !.dev = r.deviceId,
                                             !.resp = r1.response]
    IN /\ r.pc = "catch"
       /\ \/ Set(p, Log(Raise(r1, r.err), c(TRUE)))
          \/ Set(p, Log(Raise(r1, "UNABLE_TO_PUBLISH_RESPONSE"), c(FALSE)))
       /\ UNCHANGED <<otherVars, cfg, registryVars, started>>

(***************************************************************************)
(* getWithCsr: its own steps                                               *)
(***************************************************************************)
LeafPem == <<"LEAF">>

ChainPem == <<"CHAIN">>

SignedPem == <<"SIGNED">>

\* getCaCertificate: iot.describeCACertificate(caCertID)
GetCaCertificate(p) ==
    LET r == inv[p]
        c(ok) == [Call("describeCACertificate", ok) EXCEPT !.ca = r.caCertID]
    IN /\ r.pc = "describeCACertificate"
       /\ \/ Set(p, Log([r EXCEPT !.caPem = r.caCertID,
                                  !.pc = IF cfg.acmpcaEnabled THEN "issueCertificate"
                                         ELSE "getParameter"], c(TRUE)))
          \/ Set(p, Log(Throw(r, "UNABLE_TO_GET_CA_CERTIFICATE"), c(FALSE)))
       /\ UNCHANGED <<otherVars, cfg, registryVars, started>>

\* getACMCertificate: acmpca.issueCertificate(params)
IssueCertificate(p) ==
    LET r == inv[p]
        c(ok) == [Call("issueCertificate", ok) EXCEPT !.ca = r.acmCaArn,
                     !.status = IF r.certInfo THEN "subject" ELSE ""]
    IN /\ r.pc = "issueCertificate"
       /\ \/ Set(p, Log([r EXCEPT !.issuedArn = "issued", !.pc = "waitFor"], c(TRUE)))
          \/ Set(p, Log(Throw(r, "raw:issueCertificate"), c(FALSE)))
       /\ UNCHANGED <<otherVars, cfg, registryVars, started>>

\* variant: the certificate chain is left out of the bundle
WaitForCertificateIssuedLeafOnly(p) ==
    LET r == inv[p]
        c(ok) == [Call("waitFor", ok) EXCEPT !.ca = r.acmCaArn]
    IN /\ r.pc = "waitFor"
       /\ \/ Set(p, Log([r EXCEPT !.certificate = LeafPem,
                                  !.pc = "registerCertificate"], c(TRUE)))
          \/ Set(p, Log(Throw(r, "UNABLE_TO_ISSUE_CERTIFICATE"), c(FALSE)))
       /\ UNCHANGED <<otherVars, cfg, registryVars, started>>

\* getACMCertificate: acmpca.waitFor('certificateIssued') and the PEM bundle
WaitForCertificateIssued(p) ==
    LET r == inv[p]
        c(ok) == [Call("waitFor", ok) EXCEPT !.ca = r.acmCaArn]
    IN /\ r.pc = "waitFor"
       /\ \/ Set(p, Log([r EXCEPT !.certificate = LeafPem \o <<"\n">> \o ChainPem,
                                  !.pc = "registerCertificate"], c(TRUE)))
          \/ Set(p, Log(Throw(r, "UNABLE_TO_ISSUE_CERTIFICATE"), c(FALSE)))
       /\ UNCHANGED <<otherVars, cfg, registryVars, started>>

\* getCAKey: ssm.getParameter(`cdf-ca-key-${rootCACertId}`)
GetCAKey(p) ==
    LET r == inv[p]
        c(ok) == [Call("getParameter", ok) EXCEPT !.ca = r.caCertID]
    IN /\ r.pc = "getParameter"
       /\ \/ Set(p, Log([r EXCEPT !.caKey = r.caCertID, !.pc = "createCertificate"], c(TRUE)))
          \/ Set(p, Log(Throw(r, "UNABLE_TO_FETCH_CA_KEY"), c(FALSE)))
       /\ UNCHANGED <<otherVars, cfg, registryVars, started>>

\* createCertificateFromCsr: pem.createCertificate(csr, key, caPem)
CreateCertificateFromCsr(p) ==
    LET r == inv[p]
        c(ok) == [Call("createCertificate", ok) EXCEPT !.ca = r.caPem]
    IN /\ r.pc = "createCertificate"
       /\ \/ Set(p, Log([r EXCEPT !.certificate = SignedPem, !.pc = "registerCertificate"],
                        c(TRUE)))
          \/ Set(p, Log(Throw(r, "raw:createCertificate"), c(FALSE)))
       /\ UNCHANGED <<otherVars, cfg, registryVars, started>>

\* variant: the useDefaultPolicy flag is not consulted
ChoosePoliciesIgnoreFlag(r) ==
    IF Truthy(r.previousCertificateId)
    THEN [r EXCEPT !.pc = "getEffectivePolicies"]
    ELSE [r EXCEPT !.params = <<RotatedPolicy>>, !.pc = "attachPolicy"]

\* variant: the policies are always inherited
ChoosePoliciesAlwaysInherit(r) == [r EXCEPT !.pc = "getEffectivePolicies"]

\* attachPolicyToCertificate, first part: which policies to attach
ChoosePolicies(r) ==
    IF Truthy(r.previousCertificateId) /\ ~cfg.useDefaultPolicy
    THEN [r EXCEPT !.pc = "getEffectivePolicies"]
    ELSE [r EXCEPT !.params = <<RotatedPolicy>>, !.pc = "attachPolicy"]

\* variant: the certificate is not attached to the thing
RegisterCertificateSkipAttach(p) ==
    LET r == inv[p]
        c(ok) == [Call("registerCertificate", ok) EXCEPT !.ca = r.caPem, !.cert = r.certificate]
    IN /\ r.pc = "registerCertificate"
       /\ \/ \E id \in CertIds :
                /\ certs[id] = "absent"
                /\ certs' = [certs EXCEPT ![id] = "ACTIVE"]
                /\ Set(p, Log(ChoosePolicies([r EXCEPT !.certificateArn = CertArn(id)]),
                              [c(TRUE) EXCEPT !.id = CertArn(id)]))
          \/ /\ Set(p, Log(Throw(r, "UNABLE_TO_REGISTER_CERTIFICATE"), c(FALSE)))
             /\ UNCHANGED certs
       /\ UNCHANGED <<otherVars, cfg, principals, policies, rotateGroup, assetStatus, started>>

\* registerCertificate: iot.registerCertificate(ca, certificate, setAsActive)
RegisterCertificate(p) ==
    LET r == inv[p]
        c(ok) == [Call("registerCertificate", ok) EXCEPT !.ca = r.caPem, !.cert = r.certificate]
    IN /\ r.pc = "registerCertificate"
       /\ \/ \E id \in CertIds :
                /\ certs[id] = "absent"
                /\ certs' = [certs EXCEPT ![id] = "ACTIVE"]
                /\ Set(p, Log([r EXCEPT !.certificateArn = CertArn(id),
                                        !.pc = "attachThingPrincipal"],
                              [c(TRUE) EXCEPT !.id = CertArn(id)]))
          \/ /\ Set(p, Log(Throw(r, "UNABLE_TO_REGISTER_CERTIFICATE"), c(FALSE)))
             /\ UNCHANGED certs
       /\ UNCHANGED <<otherVars, cfg, principals, policies, rotateGroup, assetStatus, started>>

\* variant: a failed attachThingPrincipal is compensated by deleting the new certificate
AttachCertificateToThingCompensate(p) ==
    LET r == inv[p]
        c(ok) == [Call("attachThingPrincipal", ok) EXCEPT !.id = r.certificateArn,
                                                          !.dev = r.deviceId]
        del == [Call("deleteCertificate", TRUE) EXCEPT !.id = ArnId(r.certificateArn)]
    IN /\ r.pc = "attachThingPrincipal"
       /\ \/ /\ Registered(ArnId(r.certificateArn))
             /\ principals' = principals \cup {<<r.deviceId, ArnId(r.certificateArn)>>}
             /\ Set(p, Log(ChoosePolicies(r), c(TRUE)))
             /\ UNCHANGED certs
          \/ /\ Set(p, Log(Log(Throw(r, "UNABLE_TO_ATTACH_CERTIFICATE"), c(FALSE)), del))
             /\ certs' = [certs EXCEPT ![ArnId(r.certificateArn)] = "deleted"]
             /\ UNCHANGED principals
       /\ UNCHANGED <<otherVars, cfg, policies, rotateGroup, assetStatus, started>>

\* attachCertificateToThing: iot.attachThingPrincipal(certificateArn, deviceId)
AttachCertificateToThing(p) ==
    LET r == inv[p]
        c(ok) == [Call("attachThingPrincipal", ok) EXCEPT !.id = r.certificateArn,
                                                          !.dev = r.deviceId]
    IN /\ r.pc = "attachThingPrincipal"
       /\ \/ /\ Registered(ArnId(r.certificateArn))
             /\ principals' = principals \cup {<<r.deviceId, ArnId(r.certificateArn)>>}
             /\ Set(p, Log(ChoosePolicies(r), c(TRUE)))
          \/ /\ Set(p, Log(Throw(r, "UNABLE_TO_ATTACH_CERTIFICATE"), c(FALSE)))
             /\ UNCHANGED principals
       /\ UNCHANGED <<otherVars, cfg, certs, policies, rotateGroup, assetStatus, started>>

\* what the registry lists as the policies of a certificate
PoliciesOf(id) == IF Registered(id) THEN policies[id] ELSE {}

\* variant: the default policy is attached on top of the inherited ones
GetEffectivePoliciesPlusDefault(p) ==
    LET r == inv[p]
        c(ok) == [Call("getEffectivePolicies", ok) EXCEPT
                     !.id = CertArn(r.previousCertificateId)]
    IN /\ r.pc = "getEffectivePolicies"
       /\ \/ \E ps \in Perms(PoliciesOf(r.previousCertificateId)) :
                Set(p, Log([r EXCEPT !.params = ps \o <<RotatedPolicy>>, !.pc = "attachPolicy"],
                           [c(TRUE) EXCEPT !.names = ps]))
          \/ Set(p, Log(Throw(r, "raw:getEffectivePolicies"), c(FALSE)))
       /\ UNCHANGED <<otherVars, cfg, registryVars, started>>

\* getEffectivePolicies(previousCertificateId) and the building of params
GetEffectivePolicies(p) ==
    LET r == inv[p]
        c(ok) == [Call("getEffectivePolicies", ok) EXCEPT
                     !.id = CertArn(r.previousCertificateId)]
    IN /\ r.pc = "getEffectivePolicies"
       /\ \/ \E ps \in Perms(PoliciesOf(r.previousCertificateId)) :
                Set(p, Log([r EXCEPT !.params = ps,
                                     !.pc = IF Len(ps) = 0 THEN "updateAssetStatus"
                                            ELSE "attachPolicy"],
                           [c(TRUE) EXCEPT !.names = ps]))
          \/ Set(p, Log(Throw(r, "raw:getEffectivePolicies"), c(FALSE)))
       /\ UNCHANGED <<otherVars, cfg, registryVars, started>>

\* variant: a failed attachPolicy does not stop the loop
AttachPolicyContinue(p) ==
    LET r == inv[p]
        pol == Head(r.params)
        c(ok) == [Call("attachPolicy", ok) EXCEPT !.id = r.certificateArn, !.pol = pol]
        onward == [r EXCEPT !.params = Tail(r.params),
                            !.pc = IF Len(r.params) = 1 THEN "updateAssetStatus"
                                   ELSE "attachPolicy"]
    IN /\ r.pc = "attachPolicy"
       /\ \/ /\ Registered(ArnId(r.certificateArn))
             /\ policies' = [policies EXCEPT ![ArnId(r.certificateArn)] = @ \cup {pol}]
             /\ Set(p, Log(onward, c(TRUE)))
          \/ /\ Set(p, Log(onward, c(FALSE)))
             /\ UNCHANGED policies
       /\ UNCHANGED <<otherVars, cfg, certs, principals, rotateGroup, assetStatus, started>>

\* variant: a failed attachPolicy takes back the policies attached before it
AttachPolicyRollback(p) ==
    LET r == inv[p]
        pol == Head(r.params)
        c(ok) == [Call("attachPolicy", ok) EXCEPT !.id = r.certificateArn, !.pol = pol]
    IN /\ r.pc = "attachPolicy"
       /\ \/ /\ Registered(ArnId(r.certificateArn))
             /\ policies' = [policies EXCEPT ![ArnId(r.certificateArn)] = @ \cup {pol}]
             /\ Set(p, Log([r EXCEPT !.params = Tail(r.params),
                                     !.pc = IF Len(r.params) = 1 THEN "updateAssetStatus"
                                            ELSE "attachPolicy"], c(TRUE)))
          \/ /\ Set(p, Log(Throw(r, "UNABLE_TO_ATTACH_POLICY"), c(FALSE)))
             /\ Registered(ArnId(r.certificateArn))
             /\ policies' = [policies EXCEPT ![ArnId(r.certificateArn)] = {}]
       /\ UNCHANGED <<otherVars, cfg, certs, principals, rotateGroup, assetStatus, started>>

\* attachPolicyToCertificate, the loop: iot.attachPolicy(target, policyName)
AttachPolicy(p) ==
    LET r == inv[p]
        pol == Head(r.params)
        c(ok) == [Call("attachPolicy", ok) EXCEPT !.id = r.certificateArn, !.pol = pol]
    IN /\ r.pc = "attachPolicy"
       /\ \/ /\ Registered(ArnId(r.certificateArn))
             /\ policies' = [policies EXCEPT ![ArnId(r.certificateArn)] = @ \cup {pol}]
             /\ Set(p, Log([r EXCEPT !.params = Tail(r.params),
                                     !.pc = IF Len(r.params) = 1 THEN "updateAssetStatus"
                                            ELSE "attachPolicy"], c(TRUE)))
          \/ /\ Set(p, Log(Throw(r, "UNABLE_TO_ATTACH_POLICY"), c(FALSE)))
             /\ UNCHANGED policies
       /\ UNCHANGED <<otherVars, cfg, certs, principals, rotateGroup, assetStatus, started>>

(***************************************************************************)
(* ack: its own steps, including removePreviousCertificate                 *)
(***************************************************************************)
\* variant: the cleanup runs whatever deletePreviousCertificate says
RemoveThingFromThingGroupAlwaysCleanup(p) ==
    LET r == inv[p]
        c(ok) == [Call("removeThingFromThingGroup", ok) EXCEPT !.dev = r.deviceId]
    IN /\ r.pc = "removeThingFromThingGroup"
       /\ \/ /\ rotateGroup' = rotateGroup \ {r.deviceId}
             /\ Set(p, Log([r EXCEPT !.pc = "listThingPrincipals"], c(TRUE)))
          \/ /\ Set(p, Log(Throw(r, "raw:removeThingFromThingGroup"), c(FALSE)))
             /\ UNCHANGED rotateGroup
       /\ UNCHANGED <<otherVars, cfg, certs, principals, policies, assetStatus, started>>

\* iot.removeThingFromThingGroup(deviceId, thingGroupName)
RemoveThingFromThingGroup(p) ==
    LET r == inv[p]
        c(ok) == [Call("removeThingFromThingGroup", ok) EXCEPT !.dev = r.deviceId]
    IN /\ r.pc = "removeThingFromThingGroup"
       /\ \/ /\ rotateGroup' = rotateGroup \ {r.deviceId}
             /\ Set(p, Log(IF cfg.deletePreviousCertificate
                             THEN [r EXCEPT !.pc = "listThingPrincipals"]
                           ELSE [r EXCEPT !.response.message = "OK", !.pc = "publishSuccess"],
                           c(TRUE)))
          \/ /\ Set(p, Log(Throw(r, "raw:removeThingFromThingGroup"), c(FALSE)))
             /\ UNCHANGED rotateGroup
       /\ UNCHANGED <<otherVars, cfg, certs, principals, policies, assetStatus, started>>

\* variant: the loop head without the test for the current certificate
RECURSIVE NextPrincipalNoCurrentTest(_)
NextPrincipalNoCurrentTest(r) ==
    IF r.thingPrincipals = <<>>
    THEN [r EXCEPT !.response.message = "OK", !.pc = "publishSuccess"]
    ELSE LET principal == Head(r.thingPrincipals)
             rest == [r EXCEPT !.thingPrincipals = Tail(r.thingPrincipals)]
         IN IF Truthy(r.previousCertificateId)
               /\ ~Includes(principal, r.previousCertificateId)
            THEN NextPrincipalNoCurrentTest(rest)
            ELSE [rest EXCEPT !.principal = principal, !.pc = "detachThingPrincipal"]

\* the head of the loop over thingPrincipals.principals: the two skip tests
RECURSIVE NextPrincipal(_)
NextPrincipal(r) ==
    IF r.thingPrincipals = <<>>
    THEN [r EXCEPT !.response.message = "OK", !.pc = "publishSuccess"]
    ELSE LET principal == Head(r.thingPrincipals)
             rest == [r EXCEPT !.thingPrincipals = Tail(r.thingPrincipals)]
         IN IF Includes(principal, r.certId) THEN NextPrincipal(rest)
            ELSE IF Truthy(r.previousCertificateId)
                    /\ ~Includes(principal, r.previousCertificateId)
                 THEN NextPrincipal(rest)
            ELSE [rest EXCEPT !.principal = principal, !.pc = "detachThingPrincipal"]

\* variant: the loop goes over the listed principals twice
ListThingPrincipalsTwice(p) ==
    LET r == inv[p]
        c(ok) == [Call("listThingPrincipals", ok) EXCEPT !.dev = r.deviceId]
        bound == { CertArn(b[2]) : b \in { x \in principals : x[1] = r.deviceId } }
    IN /\ r.pc = "listThingPrincipals"
       /\ \/ \E ps \in Perms(bound) :
                Set(p, Log(NextPrincipal([r EXCEPT !.thingPrincipals = ps \o ps]),
                           [c(TRUE) EXCEPT !.arns = ps]))
          \/ Set(p, Log(Throw(r, "raw:listThingPrincipals"), c(FALSE)))
       /\ UNCHANGED <<otherVars, cfg, registryVars, started>>

\* removePreviousCertificate: iot.listThingPrincipals(deviceId)
ListThingPrincipals(p) ==
    LET r == inv[p]
        c(ok) == [Call("listThingPrincipals", ok) EXCEPT !.dev = r.deviceId]
        bound == { CertArn(b[2]) : b \in { x \in principals : x[1] = r.deviceId } }
    IN /\ r.pc = "listThingPrincipals"
       /\ \/ \E ps \in Perms(bound) :
                Set(p, Log(NextPrincipal([r EXCEPT !.thingPrincipals = ps]),
                           [c(TRUE) EXCEPT !.arns = ps]))
          \/ Set(p, Log(Throw(r, "raw:listThingPrincipals"), c(FALSE)))
       /\ UNCHANGED <<otherVars, cfg, registryVars, started>>

\* variant: a failed detachThingPrincipal is ignored
DetachThingPrincipalSwallow(p) ==
    LET r == inv[p]
        c(ok) == [Call("detachThingPrincipal", ok) EXCEPT !.dev = r.deviceId, !.id = r.principal]
    IN /\ r.pc = "detachThingPrincipal"
       /\ \/ /\ principals' = principals \ {<<r.deviceId, ArnId(r.principal)>>}
             /\ Set(p, Log([r EXCEPT !.pc = "listPrincipalThings"], c(TRUE)))
          \/ /\ Set(p, Log([r EXCEPT !.pc = "listPrincipalThings"], c(FALSE)))
             /\ UNCHANGED principals
       /\ UNCHANGED <<otherVars, cfg, certs, policies, rotateGroup, assetStatus, started>>

\* removePreviousCertificate: iot.detachThingPrincipal(deviceId, principal)
DetachThingPrincipal(p) ==
    LET r == inv[p]
        c(ok) == [Call("detachThingPrincipal", ok) EXCEPT !.dev = r.deviceId, !.id = r.principal]
    IN /\ r.pc = "detachThingPrincipal"
       /\ \/ /\ principals' = principals \ {<<r.deviceId, ArnId(r.principal)>>}
             /\ Set(p, Log([r EXCEPT !.pc = "listPrincipalThings"], c(TRUE)))
          \/ /\ Set(p, Log(Throw(r, "raw:detachThingPrincipal"), c(FALSE)))
             /\ UNCHANGED principals
       /\ UNCHANGED <<otherVars, cfg, certs, policies, rotateGroup, assetStatus, started>>

\* variant: the certificate is retired whatever listPrincipalThings reports
ListPrincipalThingsAlwaysDelete(p) ==
    LET r == inv[p]
        c(ok) == [Call("listPrincipalThings", ok) EXCEPT !.id = r.principal]
        things == { b[1] : b \in { x \in principals : x[2] = ArnId(r.principal) } }
        certificateId == SplitSlash1(r.principal)
    IN /\ r.pc = "listPrincipalThings"
       /\ \/ \E ts \in Perms(things) :
                Set(p, Log([r EXCEPT !.certificateId = certificateId,
                                     !.target = CertArn(certificateId),
                                     !.pc = "listAttachedPolicies"],
                           [c(TRUE) EXCEPT !.names = ts]))
          \/ Set(p, Log(Throw(r, "raw:listPrincipalThings"), c(FALSE)))
       /\ UNCHANGED <<otherVars, cfg, registryVars, started>>

\* variant: the orphan test is inverted
ListPrincipalThingsInverted(p) ==
    LET r == inv[p]
        c(ok) == [Call("listPrincipalThings", ok) EXCEPT !.id = r.principal]
        things == { b[1] : b \in { x \in principals : x[2] = ArnId(r.principal) } }
        certificateId == SplitSlash1(r.principal)
    IN /\ r.pc = "listPrincipalThings"
       /\ \/ \E ts \in Perms(things) :
                Set(p, Log(IF Len(ts) # 0
                             THEN [r EXCEPT !.certificateId = certificateId,
                                            !.target = CertArn(certificateId),
                                            !.pc = "listAttachedPolicies"]
                           ELSE NextPrincipal(r),
                           [c(TRUE) EXCEPT !.names = ts]))
          \/ Set(p, Log(Throw(r, "raw:listPrincipalThings"), c(FALSE)))
       /\ UNCHANGED <<otherVars, cfg, registryVars, started>>

\* removePreviousCertificate: iot.listPrincipalThings(principal) and the orphan test
ListPrincipalThings(p) ==
    LET r == inv[p]
        c(ok) == [Call("listPrincipalThings", ok) EXCEPT !.id = r.principal]
        things == { b[1] : b \in { x \in principals : x[2] = ArnId(r.principal) } }
        certificateId == SplitSlash1(r.principal)
    IN /\ r.pc = "listPrincipalThings"
       /\ \/ \E ts \in Perms(things) :
                Set(p, Log(IF Len(ts) = 0
                             THEN [r EXCEPT !.certificateId = certificateId,
                                            !.target = CertArn(certificateId),
                                            !.pc = "listAttachedPolicies"]
                           ELSE NextPrincipal(r),
                           [c(TRUE) EXCEPT !.names = ts]))
          \/ Set(p, Log(Throw(r, "raw:listPrincipalThings"), c(FALSE)))
       /\ UNCHANGED <<otherVars, cfg, registryVars, started>>

\* removePreviousCertificate: iot.listAttachedPolicies(target)
ListAttachedPolicies(p) ==
    LET r == inv[p]
        c(ok) == [Call("listAttachedPolicies", ok) EXCEPT !.id = r.target]
    IN /\ r.pc = "listAttachedPolicies"
       /\ \/ \E ps \in Perms(PoliciesOf(ArnId(r.target))) :
                Set(p, Log([r EXCEPT !.principalPolicies = ps,
                                     !.pc = IF Len(ps) = 0 THEN "updateCertificate"
                                            ELSE "detachPolicy"],
                           [c(TRUE) EXCEPT !.names = ps]))
          \/ Set(p, Log(Throw(r, "raw:listAttachedPolicies"), c(FALSE)))
       /\ UNCHANGED <<otherVars, cfg, registryVars, started>>

\* variant: the certificate is deleted right after its last policy was detached
DetachPolicyThenDelete(p) ==
    LET r == inv[p]
        pol == Head(r.principalPolicies)
        c(ok) == [Call("detachPolicy", ok) EXCEPT !.id = r.target, !.pol = pol]
        id == ArnId(r.target)
    IN /\ r.pc = "detachPolicy"
       /\ \/ /\ policies' = IF id \in CertIds THEN [policies EXCEPT ![id] = @ \ {pol}]
                            ELSE policies
             /\ Set(p, Log([r EXCEPT !.principalPolicies = Tail(r.principalPolicies),
                                     !.pc = IF Len(r.principalPolicies) = 1
                                            THEN "deleteCertificate" ELSE "detachPolicy"],
                           c(TRUE)))
          \/ /\ Set(p, Log(Throw(r, "raw:detachPolicy"), c(FALSE)))
             /\ UNCHANGED policies
       /\ UNCHANGED <<otherVars, cfg, certs, principals, rotateGroup, assetStatus, started>>

\* removePreviousCertificate: iot.detachPolicy(target, policyName), one per listed policy
DetachPolicy(p) ==
    LET r == inv[p]
        pol == Head(r.principalPolicies)
        c(ok) == [Call("detachPolicy", ok) EXCEPT !.id = r.target, !.pol = pol]
        id == ArnId(r.target)
    IN /\ r.pc = "detachPolicy"
       /\ \/ /\ policies' = IF id \in CertIds THEN [policies EXCEPT ![id] = @ \ {pol}]
                            ELSE policies
             /\ Set(p, Log([r EXCEPT !.principalPolicies = Tail(r.principalPolicies),
                                     !.pc = IF Len(r.principalPolicies) = 1
                                            THEN "updateCertificate" ELSE "detachPolicy"],
                           c(TRUE)))
          \/ /\ Set(p, Log(Throw(r, "raw:detachPolicy"), c(FALSE)))
             /\ UNCHANGED policies
       /\ UNCHANGED <<otherVars, cfg, certs, principals, rotateGroup, assetStatus, started>>

\* removePreviousCertificate: iot.updateCertificate(certificateId, INACTIVE)
DeactivateCertificate(p) ==
    LET r == inv[p]
        c(ok) == [Call("updateCertificate", ok) EXCEPT !.id = r.certificateId,
                                                       !.status = "INACTIVE"]
    IN /\ r.pc = "updateCertificate"
       /\ \/ /\ Registered(r.certificateId)
             /\ certs' = [certs EXCEPT ![r.certificateId] = "INACTIVE"]
             /\ Set(p, Log([r EXCEPT !.pc = "deleteCertificate"], c(TRUE)))
          \/ /\ Set(p, Log(Throw(r, "raw:updateCertificate"), c(FALSE)))
             /\ UNCHANGED certs
       /\ UNCHANGED <<otherVars, cfg, principals, policies, rotateGroup, assetStatus, started>>

\* variant: a failed deleteCertificate does not stop the loop
DeleteCertificateContinue(p) ==
    LET r == inv[p]
        c(ok) == [Call("deleteCertificate", ok) EXCEPT !.id = r.certificateId]
    IN /\ r.pc = "deleteCertificate"
       /\ \/ /\ Registered(r.certificateId)
             /\ certs' = [certs EXCEPT ![r.certificateId] = "deleted"]
             /\ Set(p, Log(NextPrincipal(r), c(TRUE)))
          \/ /\ Set(p, Log(NextPrincipal(r), c(FALSE)))
             /\ UNCHANGED certs
       /\ UNCHANGED <<otherVars, cfg, principals, policies, rotateGroup, assetStatus, started>>

\* removePreviousCertificate: iot.deleteCertificate(certificateId), then the next principal
DeleteCertificate(p) ==
    LET r == inv[p]
        c(ok) == [Call("deleteCertificate", ok) EXCEPT !.id = r.certificateId]
    IN /\ r.pc = "deleteCertificate"
       /\ \/ /\ Registered(r.certificateId)
             /\ certs' = [certs EXCEPT ![r.certificateId] = "deleted"]
             /\ Set(p, Log(NextPrincipal(r), c(TRUE)))
          \/ /\ Set(p, Log(Throw(r, "raw:deleteCertificate"), c(FALSE)))
             /\ UNCHANGED certs
       /\ UNCHANGED <<otherVars, cfg, principals, policies, rotateGroup, assetStatus, started>>

(***************************************************************************)
(* Inputs of the public operations                                         *)
(***************************************************************************)
DeviceIdInputs == {"", "d1", "d2"}

CsrInputs == {"", "csr-A"}

CertIdInputs == { <<>>, <<"f","0">>, <<"f","1">>, <<"0">>, <<"f">> }

PreviousCertificateIdInputs ==
    { Undef, <<>>, <<"f","0">>, <<"f","1">>, <<"f","2">>, <<"1">> }

(***************************************************************************)
(* One step of the invocation in slot p                                    *)
(***************************************************************************)
Step(p) ==
    \/ IsWhitelisted(p)
    \/ GetCertificateId(p)
    \/ ActivateCertificate(p)
    \/ GeneratePresignedUrl(p)
    \/ GetCaCertificate(p)
    \/ IssueCertificate(p)
    \/ WaitForCertificateIssued(p)
    \/ GetCAKey(p)
    \/ CreateCertificateFromCsr(p)
    \/ RegisterCertificate(p)
    \/ AttachCertificateToThing(p)
    \/ GetEffectivePolicies(p)
    \/ AttachPolicy(p)
    \/ RemoveThingFromThingGroup(p)
    \/ ListThingPrincipals(p)
    \/ DetachThingPrincipal(p)
    \/ ListPrincipalThings(p)
    \/ ListAttachedPolicies(p)
    \/ DetachPolicy(p)
    \/ DeactivateCertificate(p)
    \/ DeleteCertificate(p)
    \/ UpdateAssetStatus(p)
    \/ PublishSuccess(p)
    \/ PublishFailure(p)

\* one invocation of a public operation, run to completion, from any initial registry
Next ==
    \/ \E d \in DeviceIdInputs : started = 0 /\ Get(1, d)
    \/ \E d \in DeviceIdInputs, c \in CsrInputs, prev \in PreviousCertificateIdInputs,
          a \in ParamSets :
          started = 0 /\ GetWithCsr(1, d, c, prev, a)
    \/ \E d \in DeviceIdInputs, c \in CertIdInputs, prev \in PreviousCertificateIdInputs :
          started = 0 /\ Ack(1, d, c, prev)
    \/ Step(1)

Spec == Init /\ [][Next]_vars

\* every collaborator call of the invocation eventually returns or fails
SpecLive == Init /\ [][Next]_vars /\ WF_vars(Step(1))

(***************************************************************************)
(* Interleaved invocations of getWithCsr and ack in two slots              *)
(***************************************************************************)
ConcPrincipals ==
    { <<"d1", <<"f","0">>>>, <<"d1", <<"f","2">>>>, <<"d2", <<"f","1">>>>, <<"d2", <<"f","2">>>> }

InitConc ==
    /\ cfg \in { c \in Configs : c.deletePreviousCertificate /\ ~c.acmpcaEnabled }
    /\ certs = InitCerts
    /\ principals = ConcPrincipals
    /\ policies = InitPolicies
    /\ rotateGroup = Devices
    /\ assetStatus = {}
    /\ inv = [p \in Procs |-> Idle]
    /\ started = 0
    /\ presigned = PresignedIdle
    /\ factory = FactoryUnused

StepConc(p) ==
    \/ IsWhitelisted(p)
    \/ GetCaCertificate(p)
    \/ GetCAKey(p)
    \/ CreateCertificateFromCsr(p)
    \/ RegisterCertificate(p)
    \/ AttachCertificateToThing(p)
    \/ GetEffectivePolicies(p)
    \/ AttachPolicy(p)
    \/ RemoveThingFromThingGroup(p)
    \/ ListThingPrincipals(p)
    \/ DetachThingPrincipal(p)
    \/ ListPrincipalThings(p)
    \/ ListAttachedPolicies(p)
    \/ DetachPolicy(p)
    \/ DeactivateCertificate(p)
    \/ DeleteCertificate(p)
    \/ UpdateAssetStatus(p)
    \/ PublishSuccess(p)
    \/ PublishFailure(p)

\* each slot runs one invocation; slot 2 is used only once slot 1 has been used
SlotOrder(p) == inv[p].pc = "idle" /\ (p = 1 \/ inv[1].op # "none")

NextConc ==
    \/ \E p \in Procs, d \in Devices, prev \in {Undef, <<"f","0">>} :
          SlotOrder(p) /\ GetWithCsr(p, d, "csr-A", prev, NoParams)
    \/ \E p \in Procs, d \in Devices, c \in {<<"f","0">>, <<"f","1">>} :
          SlotOrder(p) /\ Ack(p, d, c, Undef)
    \/ \E p \in Procs : StepConc(p)

SpecConc == InitConc /\ [][NextConc]_vars

(***************************************************************************)
(* Two invocations for device d1, one after the other: a getWithCsr or an  *)
(* ack, then an ack once the first has ended                               *)
(***************************************************************************)
SeqPrincipals ==
    { <<"d1", <<"f","0">>>>, <<"d1", <<"f","1">>>>, <<"d1", <<"f","2">>>>, <<"d2", <<"f","2">>>> }

InitSeq ==
    /\ cfg \in { c \in Configs : c.deletePreviousCertificate /\ ~c.acmpcaEnabled }
    /\ certs = InitCerts
    /\ principals = SeqPrincipals
    /\ policies = InitPolicies
    /\ rotateGroup = Devices
    /\ assetStatus = {}
    /\ inv = [p \in Procs |-> Idle]
    /\ started = 0
    /\ presigned = PresignedIdle
    /\ factory = FactoryUnused

NextSeq ==
    \/ \E prev \in {Undef, <<"f","0">>} :
          inv[1].pc = "idle" /\ GetWithCsr(1, "d1", "csr-A", prev, NoParams)
    \/ \E prev \in {Undef, <<"f","1">>} :
          inv[1].pc = "idle" /\ Ack(1, "d1", <<"f","0">>, prev)
    \/ \E c \in {<<"f","0">>, <<"f","3">>}, prev \in {Undef, <<"f","1">>} :
          inv[1].pc = "done" /\ inv[2].pc = "idle" /\ Ack(2, "d1", c, prev)
    \/ \E p \in Procs : StepConc(p)

SpecSeq == InitSeq /\ [][NextSeq]_vars

(***************************************************************************)
(* Two interleaved invocations for two devices that share no principal:    *)
(* slot 1 serves d1 and slot 2 serves d2                                   *)
(***************************************************************************)
ParPrincipals ==
    { <<"d1", <<"f","0">>>>, <<"d2", <<"f","1">>>>, <<"d2", <<"f","2">>>> }

DeviceOf(p) == IF p = 1 THEN "d1" ELSE "d2"

InitPar ==
    /\ cfg \in { c \in Configs : c.deletePreviousCertificate /\ ~c.acmpcaEnabled }
    /\ certs = InitCerts
    /\ principals = ParPrincipals
    /\ policies = InitPolicies
    /\ rotateGroup = Devices
    /\ assetStatus = {}
    /\ inv = [p \in Procs |-> Idle]
    /\ started = 0
    /\ presigned = PresignedIdle
    /\ factory = FactoryUnused

NextPar ==
    \/ \E p \in Procs, prev \in {Undef, <<"f","0">>, <<"f","1">>} :
          inv[p].pc = "idle" /\ GetWithCsr(p, DeviceOf(p), "csr-A", prev, NoParams)
    \/ \E p \in Procs, c \in {<<"f","0">>, <<"f","2">>} :
          inv[p].pc = "idle" /\ Ack(p, DeviceOf(p), c, Undef)
    \/ \E p \in Procs : StepConc(p)

SpecPar == InitPar /\ [][NextPar]_vars

(***************************************************************************)
(* The certificate id derived from an ARN: a getWithCsr that has just      *)
(* registered and attached a certificate whose ARN is any string the       *)
(* registry may return, and the cleanup of an ack that has just detached   *)
(* the same principal                                                      *)
(***************************************************************************)
\* characters after `cert/`
MaxArnLen == 3

\* the resource part of the ARN is any string, '/' included
ArnShapes ==
    { CertArn(t) : t \in UNION { [1..k -> {"/", "f", "0"}] : k \in 0..MaxArnLen } }

InitArn ==
    /\ cfg \in {c \in Configs : c.deletePreviousCertificate}
    /\ certs = InitCerts
    /\ principals = {}
    /\ policies = InitPolicies
    /\ rotateGroup = {}
    /\ assetStatus = {}
    /\ started = 2
    /\ presigned = PresignedIdle
    /\ factory = FactoryUnused
    /\ \E arn \in ArnShapes :
          inv = [p \in Procs |->
                   IF p = 1
                     THEN [Idle EXCEPT !.op = "getWithCsr", !.pc = "updateAssetStatus",
                                       !.deviceId = "d1", !.csr = "csr-A",
                                       !.certificate =
                                           IF cfg.acmpcaEnabled
                                           THEN LeafPem \o <<"\n">> \o ChainPem
                                           ELSE SignedPem,
                                       !.certificateArn = arn]
                   ELSE [Idle EXCEPT !.op = "ack", !.pc = "listPrincipalThings",
                                     !.deviceId = "d1", !.certId = <<"f", "3">>,
                                     !.thingPrincipals = <<arn>>, !.principal = arn]]

NextArn ==
    \/ UpdateAssetStatus(1)
    \/ PublishSuccess(1)
    \/ PublishFailure(1)
    \/ ListPrincipalThings(2)

SpecArn == InitArn /\ [][NextArn]_vars

(***************************************************************************)
(* PresignedUrlsService: generateForUpload and generateForDownload, with   *)
(* the commands service, the templates service, the IoT job registry, S3   *)
(* signing and the MQTT response channel as collaborators                  *)
(***************************************************************************)
\* the state of CertificateService and its registry, which this service never touches
certificateVars == <<cfg, certs, principals, policies, rotateGroup, assetStatus, inv, started>>

PresignedS3Bucket == "bucket-cfg"

PresignedS3Prefix == "prefix/"

\* `arn:aws:iot:${region}:9:${resource}`
IotArn(region, resource) ==
    <<"a","r","n",":","a","w","s",":","i","o","t",":">> \o region \o <<":","9",":">> \o resource

ThingD1 == <<"d","1">>

ThingD2 == <<"d","2">>

ThingPrefix == <<"t","h","i","n","g","/">>

GroupPrefix == <<"g","r","o","u","p","/">>

\* ARNs of things and thing groups, in the service's region "r" and in another one
ThingArnD1 == IotArn(<<"r">>, ThingPrefix \o ThingD1)

ThingArnD2 == IotArn(<<"r">>, ThingPrefix \o ThingD2)

ThinggroupArnG1 == IotArn(<<"r">>, <<"t","h","i","n","g">> \o GroupPrefix \o <<"g","1">>)

GroupArnG1 == IotArn(<<"r">>, GroupPrefix \o <<"g","1">>)

GroupArnG2 == IotArn(<<"r">>, GroupPrefix \o <<"g","2">>)

GroupArnG1Elsewhere == IotArn(<<"r","2">>, GroupPrefix \o <<"g","1">>)

\* t.split(':').pop()
SplitColonPop(t) ==
    LET colons == { i \in 1..Len(t) : t[i] = ":" }
    IN IF colons = {} THEN t
       ELSE SubSeq(t, (CHOOSE i \in colons : \A j \in colons : j <= i) + 1, Len(t))

\* String.prototype.startsWith
StartsWith(s, t) == Len(s) >= Len(t) /\ SubSeq(s, 1, Len(t)) = t

\* describeJob(...).job : undefined, or a job with its targets
NoJob == [defined |-> FALSE, targets |-> {}]

Jobs ==
    { NoJob } \cup
    { [defined |-> TRUE, targets |-> t] :
        t \in { {}, {ThingArnD1}, {ThingArnD2}, {ThinggroupArnG1}, {GroupArnG1},
                {ThingArnD2, GroupArnG1} } }

\* listThingGroupsForThing(...).thingGroups : undefined, or the groupArn of each group
NoThingGroups == [defined |-> FALSE, arns |-> {}]

ThingGroupLists ==
    { NoThingGroups } \cup
    { [defined |-> TRUE, arns |-> a] :
        a \in { {}, {ThinggroupArnG1}, {GroupArnG1}, {GroupArnG2}, {GroupArnG1Elsewhere} } }

FileOf(alias) == [bucketName |-> "bucket-cmd", key |-> <<"files", alias>>]

\* commandService.get(commandId): the aliases that the command holds a file for
Commands ==
    { [commandId |-> "c1", jobId |-> "j1", templateId |-> "t1", files |-> f] :
        f \in { {"a1", "a2"}, {"a1"} } }

\* templateService.get(templateId)
Templates ==
    { [requiredFiles |-> q, presignedUrlExpiresInSeconds |-> 300] :
        q \in { {"a1", "a2"}, {"a1"} } }

NoCommand == [commandId |-> "", jobId |-> "", templateId |-> "", files |-> {}]

NoTemplate == [requiredFiles |-> {}, presignedUrlExpiresInSeconds |-> 0]

\* PresignedResponseModel: presignedUrls is a set of <<key or alias, signed url>>
PresignedResponse(thingName, commandId) ==
    [thingName |-> thingName, commandId |-> commandId, status |-> "SUCCESS",
     hasPresignedUrls |-> FALSE, presignedUrls |-> {}]

\* jobFuture and templateFuture are the two promises handed to Promise.all
PresignedStart(op, thingName, commandId, requested) ==
    [op |-> op, pc |-> "try", result |-> "running", raised |-> UndefS, err |-> UndefS,
     thingName |-> thingName, commandId |-> commandId, requested |-> requested,
     command |-> NoCommand, template |-> NoTemplate, job |-> NoJob,
     jobFuture |-> "none", templateFuture |-> "none",
     r |-> PresignedResponse(thingName, commandId), calls |-> <<>>]

\* one entry of the collaborator-call log of a request
PCall(name, ok) ==
    [call |-> name, ok |-> ok, thing |-> <<>>, direction |-> "", outcome |-> "",
     payload |-> PresignedResponse(<<>>, ""), url |-> NoUrl, alias |-> "", arns |-> {}]

PLog(st, e) == [st EXCEPT !.calls = Append(@, e)]

\* the log keeps the order in which the calls were made: describeJob is called before
\* templateService.get, whichever of the two answers first
PLogDescribeJob(st, e) ==
    LET later == { i \in 1..Len(st.calls) : st.calls[i].call = "templateService.get" }
    IN IF later = {} THEN PLog(st, e)
       ELSE LET i == CHOOSE k \in later : TRUE
            IN [st EXCEPT !.calls = SubSeq(@, 1, i - 1) \o <<e>> \o SubSeq(@, i, Len(@))]

\* an error thrown inside the try block: the catch block sets the status, then publishes
PThrow(st, msg) == [st EXCEPT !.pc = "publishFailedResponse", !.err = msg, !.r.status = "FAILED"]

\* generatePresignedUrl: s3.getSignedUrl(operation, {Bucket, Key, Expires})
SignedUrl(bucketName, key, expires, forUpload) ==
    [operation |-> IF forUpload THEN "putObject" ELSE "getObject",
     bucket |-> bucketName, key |-> key, expires |-> expires]

\* `${s3Prefix}commands/${commandId}/uploads/${thingName}/${k}`
UploadKey(commandId, thingName, k) ==
    <<PresignedS3Prefix, "commands", commandId, "uploads", thingName, k>>

\* the forEach over the requested keys or aliases; urls holds the local presignedUrls.
\* Each s3.getSignedUrl call returns or throws on its own: failAt is the position of
\* the first call that throws, 0 when none does.
RECURSIVE SignEach(_, _, _, _)
SignEach(st, todo, urls, failAt) ==
    IF todo = <<>>
    THEN [st EXCEPT !.r.hasPresignedUrls = TRUE, !.r.presignedUrls = urls,
                    !.pc = "publishSuccessResponse"]
    ELSE LET k == Head(todo)
             position == Len(st.requested) - Len(todo) + 1
             upload == st.op = "generateForUpload"
         IN IF ~upload /\ k \notin st.template.requiredFiles
              THEN PThrow(st, "INVALID_ALIAS")
            ELSE IF ~upload /\ k \notin st.command.files
              THEN PThrow(st, "TypeError")
            ELSE LET url == IF upload
                              THEN SignedUrl(PresignedS3Bucket,
                                             UploadKey(st.command.commandId, st.thingName, k),
                                             st.template.presignedUrlExpiresInSeconds, TRUE)
                            ELSE SignedUrl(FileOf(k).bucketName, FileOf(k).key,
                                           st.template.presignedUrlExpiresInSeconds, FALSE)
                     c(ok) == [PCall("getSignedUrl", ok) EXCEPT !.url = url, !.alias = k]
                 IN IF position # failAt
                      THEN SignEach(PLog(st, c(TRUE)), Tail(todo),
                                    { u \in urls : u[1] # k } \cup {<<k, url>>}, failAt)
                    ELSE PThrow(PLog(st, c(FALSE)), "raw:getSignedUrl")

\* the positions at which a signing call of the request can throw
FailPositions == 0..Len(presigned.requested)

\* what follows validateDeviceIsTarget: the FORBIDDEN test, then the signing loop
AfterIsTarget(st, isTarget, failAt) ==
    IF ~isTarget THEN PThrow(st, "FORBIDDEN")
    ELSE SignEach(st, st.requested, {}, failAt)

\* job.targets.filter((t) => t.split(':').pop() === `thing/${thingName}`).length > 0
ExplicitTarget(thingName, job) ==
    \E t \in job.targets : SplitColonPop(t) = ThingPrefix \o thingName

\* job.targets.filter((t) => t.split(':').pop().startsWith('group/'))
GroupTargets(job) == { t \in job.targets : StartsWith(SplitColonPop(t), GroupPrefix) }

\* variant: every thing is taken for a target of the job
ValidateDeviceIsTargetNoTargetTest(st, failAt) ==
    IF ~st.job.defined THEN PThrow(st, "NOT_FOUND")
    ELSE AfterIsTarget(st, TRUE, failAt)

\* validateDeviceIsTarget up to its await: the undefined-job test and the explicit targets
ValidateDeviceIsTarget(st, failAt) ==
    IF ~st.job.defined THEN PThrow(st, "NOT_FOUND")
    ELSE IF ExplicitTarget(st.thingName, st.job) THEN AfterIsTarget(st, TRUE, failAt)
    ELSE [st EXCEPT !.pc = "listThingGroupsForThing"]

\* generateForUpload(request) and generateForDownload(request) up to the first await
GenerateFor(op, thingName, requested) ==
    /\ presigned.pc = "idle"
    /\ LET st == PresignedStart(op, thingName, "c1", requested)
       IN presigned' = IF thingName = <<>> \/ requested = <<>>
                         THEN PThrow(st, "ArgumentError")
                       ELSE [st EXCEPT !.pc = "commandService.get"]
    /\ UNCHANGED <<certificateVars, factory>>

GenerateForUpload(thingName, requestedObjectKeys) ==
    GenerateFor("generateForUpload", thingName, requestedObjectKeys)

GenerateForDownload(thingName, requestedFileAliases) ==
    GenerateFor("generateForDownload", thingName, requestedFileAliases)

\* getCommandAndJobInfo: commandService.get(commandId); once it answers, describeJob and
\* templateService.get are both called and Promise.all awaits the pair
CommandServiceGet ==
    /\ presigned.pc = "commandService.get"
    /\ \/ \E c \in Commands :
             presigned' = PLog([presigned EXCEPT !.command = c, !.pc = "Promise.all",
                                                 !.jobFuture = "pending",
                                                 !.templateFuture = "pending"],
                               PCall("commandService.get", TRUE))
       \/ presigned' = PLog(PThrow(presigned, "raw:commandService.get"),
                            PCall("commandService.get", FALSE))
    /\ UNCHANGED <<certificateVars, factory>>

\* getCommandAndJobInfo: the answer of iot.describeJob.  Promise.all resolves when both
\* promises have resolved and rejects with the first rejection; an answer that arrives
\* after the rejection is dropped.
DescribeJob ==
    /\ presigned.jobFuture = "pending"
    /\ \/ \E j \in Jobs, failAt \in FailPositions :
             LET st == PLogDescribeJob([presigned EXCEPT !.jobFuture = "resolved", !.job = j],
                                       PCall("describeJob", TRUE))
             IN presigned' = IF st.pc = "Promise.all" /\ st.templateFuture = "resolved"
                               THEN ValidateDeviceIsTarget(st, failAt)
                             ELSE st
       \/ LET st == PLogDescribeJob([presigned EXCEPT !.jobFuture = "rejected"],
                                    PCall("describeJob", FALSE))
          IN presigned' = IF st.pc = "Promise.all" THEN PThrow(st, "raw:describeJob") ELSE st
    /\ UNCHANGED <<certificateVars, factory>>

\* getCommandAndJobInfo: the answer of templateService.get
TemplateServiceGet ==
    /\ presigned.templateFuture = "pending"
    /\ \/ \E t \in Templates, failAt \in FailPositions :
             LET st == PLog([presigned EXCEPT !.templateFuture = "resolved", !.template = t],
                            PCall("templateService.get", TRUE))
             IN presigned' = IF st.pc = "Promise.all" /\ st.jobFuture = "resolved"
                               THEN ValidateDeviceIsTarget(st, failAt)
                             ELSE st
       \/ LET st == PLog([presigned EXCEPT !.templateFuture = "rejected"],
                         PCall("templateService.get", FALSE))
          IN presigned' = IF st.pc = "Promise.all"
                            THEN PThrow(st, "raw:templateService.get")
                          ELSE st
    /\ UNCHANGED <<certificateVars, factory>>

\* validateDeviceIsTarget: iot.listThingGroupsForThing(thingName) and the group targets,
\* matched on the whole ARN (tg.groupArn === g)
ListThingGroupsForThing ==
    /\ presigned.pc = "listThingGroupsForThing"
    /\ \/ \E g \in ThingGroupLists, failAt \in FailPositions :
             LET c == [PCall("listThingGroupsForThing", TRUE) EXCEPT
                          !.thing = presigned.thingName, !.arns = g.arns]
                 groups == GroupTargets(presigned.job)
                 isTarget == /\ g.defined /\ g.arns # {} /\ groups # {}
                             /\ \E t \in groups : \E tg \in g.arns : tg = t
             IN presigned' = AfterIsTarget(PLog(presigned, c), isTarget, failAt)
       \/ presigned' = PLog(PThrow(presigned, "raw:listThingGroupsForThing"),
                            [PCall("listThingGroupsForThing", FALSE) EXCEPT
                                !.thing = presigned.thingName])
    /\ UNCHANGED <<certificateVars, factory>>

\* the direction given to publishSuccessResponse
SuccessDirection(op) == IF op = "generateForUpload" THEN "uploads" ELSE "downloads"

\* the direction given to publishFailedResponse
FailedDirection(op) == "uploads"

\* publishSuccessResponse(r, direction): iotData.publish on .../{direction}/accepted
PublishSuccessResponse ==
    LET c(ok) == [PCall("publish", ok) EXCEPT !.thing = presigned.r.thingName,
                                              !.direction = SuccessDirection(presigned.op),
                                              !.outcome = "accepted",
                                              !.payload = presigned.r]
    IN /\ presigned.pc = "publishSuccessResponse"
       /\ \/ presigned' = PLog([presigned EXCEPT !.pc = "done", !.result = "returned"], c(TRUE))
          \/ presigned' = PLog(PThrow(presigned, "raw:publish"), c(FALSE))
       /\ UNCHANGED <<certificateVars, factory>>

\* the catch block: publishFailedResponse(r, direction) on .../{direction}/rejected
PublishFailedResponse ==
    LET c(ok) == [PCall("publish", ok) EXCEPT !.thing = presigned.r.thingName,
                                              !.direction = FailedDirection(presigned.op),
                                              !.outcome = "rejected",
                                              !.payload = presigned.r]
    IN /\ presigned.pc = "publishFailedResponse"
       /\ \/ presigned' = PLog([presigned EXCEPT !.pc = "done", !.result = "returned"], c(TRUE))
          \/ presigned' = PLog([presigned EXCEPT !.pc = "done", !.result = "raised",
                                                 !.raised = "raw:publish"], c(FALSE))
       /\ UNCHANGED <<certificateVars, factory>>

ThingNameInputs == { <<>>, ThingD1, ThingD2 }

RequestedObjectKeys == { <<>>, <<"k1">>, <<"k1", "k2">> }

RequestedFileAliases == { <<>>, <<"a1">>, <<"a1", "a2">>, <<"a1", "zz">>, <<"zz", "a1">> }

InitPresigned ==
    /\ cfg = [useDefaultPolicy |-> FALSE, deletePreviousCertificate |-> FALSE,
              acmpcaEnabled |-> FALSE]
    /\ certs = InitCerts
    /\ principals = {}
    /\ policies = InitPolicies
    /\ rotateGroup = {}
    /\ assetStatus = {}
    /\ inv = [p \in Procs |-> Idle]
    /\ started = 0
    /\ presigned = PresignedIdle
    /\ factory = FactoryUnused

NextPresigned ==
    \/ \E t \in ThingNameInputs, k \in RequestedObjectKeys : GenerateForUpload(t, k)
    \/ \E t \in ThingNameInputs, a \in RequestedFileAliases : GenerateForDownload(t, a)
    \/ CommandServiceGet
    \/ DescribeJob
    \/ TemplateServiceGet
    \/ ListThingGroupsForThing
    \/ PublishSuccessResponse
    \/ PublishFailedResponse

SpecPresigned == InitPresigned /\ [][NextPresigned]_vars

(***************************************************************************)
(* The ACMPCA client factory of the provisioning service: the container    *)
(* binding of the client, the expiry of the assumed-role token and the     *)
(* clock, in minutes                                                       *)
(***************************************************************************)
\* calls of the factory in one behaviour
MaxFactoryCalls == 5

\* minutes that the clock advances in one behaviour
MaxClock == 4

\* 5 * 60 * 1000 ms, in minutes
RefreshMarginMinutes == 5

\* async function isStsTokenAboutToExpire(expiresAt): the Promise it returns and the
\* value the Promise resolves to
IsStsTokenAboutToExpire(expiresAt, now) ==
    [promise |-> TRUE,
     value |-> IF ~expiresAt.defined THEN FALSE
               ELSE (now - RefreshMarginMinutes) < expiresAt.at]

\* ToBoolean of an operand of ||: an object, a Promise included, is truthy
ToBoolean(x) == IF x.promise THEN TRUE ELSE x.value

\* one call of the STS factory function: it binds TYPES.STS when it is not bound yet
STSFactory ==
    /\ ~factory.stsBound
    /\ factory' = [factory EXCEPT !.stsBound = TRUE]
    /\ UNCHANGED <<certificateVars, presigned>>

\* one call of the factory function; with the role set, container.get(TYPES.STS) throws
\* when nothing is bound to it, before a client is constructed
ACMPCAFactory ==
    LET f == factory
        rebuild == ~f.bound \/ ToBoolean(IsStsTokenAboutToExpire(f.acmPcaStsExpiresAt, f.now))
        made == [f EXCEPT !.constructed = @ + 1, !.client = f.constructed + 1,
                          !.bound = TRUE,
                          !.pending = IF f.crossAccountRole THEN @ + 1 ELSE @]
        after == IF rebuild THEN made ELSE f
    IN /\ f.calls < MaxFactoryCalls
       /\ factory' = IF rebuild /\ f.crossAccountRole /\ ~f.stsBound
                       THEN [f EXCEPT !.calls = @ + 1, !.raised = TRUE]
                     ELSE [after EXCEPT !.calls = @ + 1, !.returned = after.client,
                                        !.raised = FALSE]
       /\ UNCHANGED <<certificateVars, presigned>>

\* the callback of sts.assumeRole: it throws err, or fails on the undefined
\* acmpcaConfig.credentials before it reaches the assignment of acmPcaStsExpiresAt
AssumeRoleCallback ==
    /\ factory.pending > 0
    /\ \E outcome \in {"err", "TypeError"} :
          factory' = [factory EXCEPT !.pending = @ - 1, !.callback = outcome]
    /\ UNCHANGED <<certificateVars, presigned>>

\* Date.now() advances
Tick ==
    /\ factory.now < MaxClock
    /\ factory' = [factory EXCEPT !.now = @ + 1]
    /\ UNCHANGED <<certificateVars, presigned>>

InitFactory ==
    /\ cfg = [useDefaultPolicy |-> FALSE, deletePreviousCertificate |-> FALSE,
              acmpcaEnabled |-> TRUE]
    /\ certs = InitCerts
    /\ principals = {}
    /\ policies = InitPolicies
    /\ rotateGroup = {}
    /\ assetStatus = {}
    /\ inv = [p \in Procs |-> Idle]
    /\ started = 0
    /\ presigned = PresignedIdle
    /\ \E role \in BOOLEAN : factory = FactoryStart(role)

NextFactory ==
    \/ STSFactory
    \/ ACMPCAFactory
    \/ AssumeRoleCallback
    \/ Tick

SpecFactory == InitFactory /\ [][NextFactory]_vars

(***************************************************************************)
(* Reading the call log of an invocation                                   *)
(***************************************************************************)
MutationCalls ==
    { "updateCertificate", "registerCertificate", "attachThingPrincipal", "attachPolicy",
      "removeThingFromThingGroup", "detachThingPrincipal", "detachPolicy",
      "deleteCertificate", "updateAssetStatus" }

\* indexes of the calls of an invocation with a given name
Idx(r, name) == { i \in 1..Len(r.calls) : r.calls[i].call = name }

IsFailurePublish(r, e) == e.call = "publish" /\ e.topic = FailureTopic(r.op)

IsSuccessPublish(r, e) == e.call = "publish" /\ e.topic = SuccessTopic(r.op)

\* the whitelist check answered, and the answer was not true
NotWhitelisted(r) ==
    \E i \in Idx(r, "isWhitelisted") : r.calls[i].ok /\ r.calls[i].status = "false"

(***************************************************************************)
(* C1: in get, getWithCsr and ack, when isWhitelisted answers anything     *)
(* other than true, no mutation call is made, and the only call that       *)
(* follows is the publish on the operation's failure topic with message    *)
(* DEVICE_NOT_WHITELISTED.                                                 *)
(***************************************************************************)
C1_NotWhitelistedNoMutation ==
    \A p \in Procs :
        LET r == inv[p]
        IN NotWhitelisted(r) =>
             /\ \A i \in 1..Len(r.calls) : r.calls[i].call \notin MutationCalls
             /\ r.calls[1].call = "isWhitelisted"
             /\ r.pc \in {"catch", "done"}
             /\ r.pc = "catch" => Len(r.calls) = 1 /\ r.err = "DEVICE_NOT_WHITELISTED"
             /\ r.pc = "done" =>
                  /\ Len(r.calls) = 2
                  /\ IsFailurePublish(r, r.calls[2])
                  /\ r.calls[2].dev = r.deviceId
                  /\ r.calls[2].resp.message = "DEVICE_NOT_WHITELISTED"
                  /\ r.result = "raised"

C1_Witness ==
    /\ inv[1].op = "ack"
    /\ inv[1].pc = "done"
    /\ NotWhitelisted(inv[1])
    /\ inv[1].calls[Len(inv[1].calls)].ok
    /\ cfg.deletePreviousCertificate
    /\ \E id \in CertIds : <<inv[1].deviceId, id>> \in principals /\ id # inv[1].certId

(***************************************************************************)
(* C2: cleanup never unbinds, detaches policies from, deactivates or       *)
(* deletes the principal matching certId, whatever the set and order of    *)
(* the principals of the device and whatever previousCertificateId.        *)
(***************************************************************************)
\* a call of the cleanup that changes the certificate id
TouchesCertificate(e, id) ==
    \/ e.call \in {"detachThingPrincipal", "detachPolicy"} /\ e.id = CertArn(id)
    \/ e.call \in {"updateCertificate", "deleteCertificate"} /\ e.id = id

C2_CurrentNeverTouched ==
    \A p \in Procs :
        LET r == inv[p]
        IN r.op = "ack" =>
             \A i \in 1..Len(r.calls) : ~TouchesCertificate(r.calls[i], r.certId)

C2_Witness ==
    LET r == inv[1]
    IN /\ r.op = "ack"
       /\ r.result = "returned"
       /\ \E i \in Idx(r, "deleteCertificate") : r.calls[i].ok
       /\ \E i \in Idx(r, "listThingPrincipals") :
             /\ Len(r.calls[i].arns) >= 2
             /\ r.calls[i].arns[2] = CertArn(r.certId)
       /\ certs[r.certId] = "ACTIVE"
       /\ <<r.deviceId, r.certId>> \in principals

(***************************************************************************)
(* C3: over every interleaving of getWithCsr and ack invocations for       *)
(* devices that share certificates, a certificate is never deleted while   *)
(* some device still has it bound as a principal.                          *)
(***************************************************************************)
BoundToSomeDevice(id) == \E d \in Devices : <<d, id>> \in principals

C3_NoDeleteWhileBound ==
    [][\A id \in CertIds :
          (certs[id] # "deleted" /\ certs'[id] = "deleted") => ~BoundToSomeDevice(id)]_vars

\* the certificate shared by the two devices has been deleted by one of two acks
C3_Witness ==
    /\ certs[<<"f","2">>] = "deleted"
    /\ inv[1].op = "ack" /\ inv[2].op = "ack"
    /\ inv[1].deviceId # inv[2].deviceId
    /\ \E i \in Idx(inv[1], "detachThingPrincipal") :
          inv[1].calls[i].ok /\ inv[1].calls[i].id = CertArn(<<"f","2">>)
    /\ \E i \in Idx(inv[2], "detachThingPrincipal") :
          inv[2].calls[i].ok /\ inv[2].calls[i].id = CertArn(<<"f","2">>)

(***************************************************************************)
(* C4: in a cleanup that ran to completion, a principal that is neither    *)
(* the current one nor excluded by a named previousCertificateId is        *)
(* deleted if and only if it was unbound from the device and               *)
(* listPrincipalThings then reported no device; a deleted principal was    *)
(* first detached from every listed policy and set INACTIVE, and a         *)
(* principal still bound elsewhere was only unbound from the device.       *)
(***************************************************************************)
\* the principals that listThingPrincipals returned to the cleanup
Listed(r) == UNION { Range(r.calls[i].arns) : i \in Idx(r, "listThingPrincipals") }

Unbound(r, arn) ==
    \E i \in Idx(r, "detachThingPrincipal") : r.calls[i].ok /\ r.calls[i].id = arn

ReportedOrphan(r, arn) ==
    \E i \in Idx(r, "listPrincipalThings") :
        r.calls[i].ok /\ r.calls[i].id = arn /\ r.calls[i].names = <<>>

DeletedBy(r, arn) ==
    \E i \in Idx(r, "deleteCertificate") : r.calls[i].ok /\ r.calls[i].id = ArnId(arn)

\* every policy listed for arn was detached and the certificate set INACTIVE before the delete
RetiredInOrder(r, arn) ==
    \E l \in Idx(r, "listAttachedPolicies"), u \in Idx(r, "updateCertificate"),
       d \in Idx(r, "deleteCertificate") :
        /\ r.calls[l].id = arn
        /\ r.calls[u].id = ArnId(arn) /\ r.calls[u].status = "INACTIVE" /\ r.calls[u].ok
        /\ r.calls[d].id = ArnId(arn)
        /\ l < u /\ u < d
        /\ \A pol \in Range(r.calls[l].names) :
              \E k \in Idx(r, "detachPolicy") :
                  /\ l < k /\ k < u
                  /\ r.calls[k].ok /\ r.calls[k].id = arn /\ r.calls[k].pol = pol

\* calls of the invocation that change the certificate of arn, by name
ChangesOf(r, arn) ==
    { r.calls[i].call : i \in { j \in 1..Len(r.calls) :
                                   TouchesCertificate(r.calls[j], ArnId(arn)) } }

C4_DeletedIffOrphaned ==
    LET r == inv[1]
    IN (r.op = "ack" /\ r.result = "returned" /\ cfg.deletePreviousCertificate) =>
         \A arn \in Listed(r) :
            (/\ ArnId(arn) # r.certId
             /\ Truthy(r.previousCertificateId) => ArnId(arn) = r.previousCertificateId)
            => /\ DeletedBy(r, arn) <=> (Unbound(r, arn) /\ ReportedOrphan(r, arn))
               /\ DeletedBy(r, arn) =>
                    /\ RetiredInOrder(r, arn)
                    /\ certs[ArnId(arn)] = "deleted"
                    /\ policies[ArnId(arn)] = {}
               /\ (Unbound(r, arn) /\ ~ReportedOrphan(r, arn)) =>
                    /\ ChangesOf(r, arn) = {"detachThingPrincipal"}
                    /\ certs[ArnId(arn)] = InitCerts[ArnId(arn)]
                    /\ policies[ArnId(arn)] = InitPolicies[ArnId(arn)]
                    /\ <<r.deviceId, ArnId(arn)>> \notin principals

\* the scenario [P1 = current, P2 orphaned after unbind, P3 still bound to another device]
C4_Witness ==
    LET r == inv[1]
        P1 == CertArn(<<"f","0">>)
        P2 == CertArn(<<"f","1">>)
        P3 == CertArn(<<"f","2">>)
    IN /\ r.op = "ack" /\ r.result = "returned" /\ r.deviceId = "d1"
       /\ r.certId = <<"f","0">> /\ r.previousCertificateId = Undef
       /\ \E i \in Idx(r, "listThingPrincipals") : r.calls[i].arns = <<P1, P2, P3>>
       /\ DeletedBy(r, P2) /\ Unbound(r, P3) /\ ~DeletedBy(r, P3)
       /\ ChangesOf(r, P1) = {}
       /\ <<"d1", <<"f","0">>>> \in principals
       /\ <<"d2", <<"f","2">>>> \in principals

(***************************************************************************)
(* C5: every invocation of get, getWithCsr or ack makes exactly one        *)
(* outcome publish, on the success topic or on the failure topic, never    *)
(* both and never none, whatever the failure point.                        *)
(***************************************************************************)
C5_ExactlyOnePublish ==
    \A p \in Procs :
        inv[p].pc = "done" => Cardinality(Idx(inv[p], "publish")) = 1

(***************************************************************************)
(* C6: every invocation either returns after a success publish, or raises  *)
(* the error that caused the failure, after a failure outcome carrying     *)
(* that error's message has been published on the failure topic.           *)
(***************************************************************************)
C6_ReturnsOrRaisesAfterFailurePublish ==
    \A p \in Procs :
        LET r == inv[p]
            n == Len(r.calls)
        IN r.pc = "done" =>
             \/ /\ r.result = "returned"
                /\ n > 0 /\ IsSuccessPublish(r, r.calls[n]) /\ r.calls[n].ok
             \/ /\ r.result = "raised"
                /\ r.raised = r.err
                /\ n > 0 /\ IsFailurePublish(r, r.calls[n]) /\ r.calls[n].ok
                /\ r.calls[n].resp.message = r.raised

(***************************************************************************)
(* C7: a successful getWithCsr with a non-empty previousCertificateId and  *)
(* useDefaultPolicy false attaches to the new certificate exactly the set  *)
(* of effective policies returned for the previous certificate (also when  *)
(* it is empty); the default policy is attached only as a member of it.    *)
(***************************************************************************)
\* the policy names this invocation attached to arn
AttachedBy(r, arn) ==
    { r.calls[i].pol : i \in { j \in Idx(r, "attachPolicy") :
                                  r.calls[j].ok /\ r.calls[j].id = arn } }

C7_InheritedPoliciesExact ==
    LET r == inv[1]
    IN (/\ r.op = "getWithCsr" /\ r.result = "returned"
        /\ Truthy(r.previousCertificateId) /\ ~cfg.useDefaultPolicy)
       => /\ Cardinality(Idx(r, "getEffectivePolicies")) = 1
          /\ \A g \in Idx(r, "getEffectivePolicies") :
                /\ r.calls[g].id = CertArn(r.previousCertificateId)
                /\ AttachedBy(r, r.certificateArn) = Range(r.calls[g].names)
                /\ policies[ArnId(r.certificateArn)] = Range(r.calls[g].names)
                /\ RotatedPolicy \in AttachedBy(r, r.certificateArn)
                      => RotatedPolicy \in Range(r.calls[g].names)
          /\ \A i \in Idx(r, "attachPolicy") : r.calls[i].id = r.certificateArn

C7_Witness ==
    LET r == inv[1]
    IN /\ r.op = "getWithCsr" /\ r.result = "returned"
       /\ r.previousCertificateId = <<"f","0">> /\ ~cfg.useDefaultPolicy
       /\ policies[ArnId(r.certificateArn)] = {"policy-a"}
       /\ policies[<<"f","0">>] = {"policy-a"}

(***************************************************************************)
(* C8: a successful getWithCsr whose previousCertificateId is absent or    *)
(* empty, or that runs with useDefaultPolicy true, makes exactly one       *)
(* attachPolicy call: rotatedCertificatePolicy on the new certificate ARN. *)
(***************************************************************************)
C8_DefaultPolicyOnly ==
    LET r == inv[1]
    IN (/\ r.op = "getWithCsr" /\ r.result = "returned"
        /\ ~Truthy(r.previousCertificateId) \/ cfg.useDefaultPolicy)
       => /\ Cardinality(Idx(r, "attachPolicy")) = 1
          /\ \A i \in Idx(r, "attachPolicy") :
                /\ r.calls[i].ok
                /\ r.calls[i].pol = RotatedPolicy
                /\ r.calls[i].id = r.certificateArn
          /\ Idx(r, "getEffectivePolicies") = {}
          /\ policies[ArnId(r.certificateArn)] = {RotatedPolicy}

C8_Witness ==
    LET r == inv[1]
    IN /\ r.op = "getWithCsr" /\ r.result = "returned"
       /\ r.previousCertificateId = <<"f","0">> /\ cfg.useDefaultPolicy
       /\ policies[ArnId(r.certificateArn)] = {RotatedPolicy}

(***************************************************************************)
(* C9: in a successful getWithCsr the registry calls happen in this order  *)
(* and only in it: registerCertificate(caPem, certificate),                *)
(* attachThingPrincipal(returned ARN, deviceId), the attachPolicy calls on *)
(* the returned ARN, updateAssetStatus(deviceId), then the success publish *)
(* carrying the certificate and its certificateId; the CA certificate      *)
(* fetch and the issuance precede registerCertificate.                     *)
(***************************************************************************)
OrderedCalls ==
    { "registerCertificate", "attachThingPrincipal", "attachPolicy", "updateAssetStatus",
      "publish" }

IsOrderedCall(e) == e.call \in OrderedCalls

C9_CallOrder ==
    LET r == inv[1]
        F == SelectSeq(r.calls, IsOrderedCall)
        n == Len(F)
    IN (r.op = "getWithCsr" /\ r.result = "returned") =>
         /\ n >= 4
         /\ \A i \in 1..n : F[i].ok
         /\ F[1].call = "registerCertificate"
         /\ F[1].ca = r.caPem /\ F[1].cert = r.certificate /\ F[1].id = r.certificateArn
         /\ F[2].call = "attachThingPrincipal"
         /\ F[2].id = F[1].id /\ F[2].dev = r.deviceId
         /\ \A i \in 3..(n - 2) : F[i].call = "attachPolicy" /\ F[i].id = F[1].id
         /\ F[n - 1].call = "updateAssetStatus" /\ F[n - 1].dev = r.deviceId
         /\ IsSuccessPublish(r, F[n])
         /\ F[n].resp.certificate = F[1].cert
         /\ F[n].resp.certificateId = ArnId(F[1].id)
         /\ \A i \in 1..Len(r.calls) :
               r.calls[i].call \in MutationCalls => r.calls[i].call \in OrderedCalls
         /\ \E d \in Idx(r, "describeCACertificate"),
               c \in Idx(r, "waitFor") \cup Idx(r, "createCertificate"),
               g \in Idx(r, "registerCertificate") :
               /\ d < c /\ c < g
               /\ r.calls[d].ok /\ r.calls[c].ok
               /\ r.calls[g].ca = r.calls[d].ca

\* device d1, csr-A, no previous certificate, the default policy
C9_Witness ==
    LET r == inv[1]
        F == SelectSeq(r.calls, IsOrderedCall)
    IN /\ r.op = "getWithCsr" /\ r.result = "returned"
       /\ r.deviceId = "d1" /\ r.csr = "csr-A" /\ r.previousCertificateId = Undef
       /\ Len(F) = 5
       /\ F[3].call = "attachPolicy" /\ F[3].pol = RotatedPolicy
       /\ F[5].resp.certificateId = <<"f","3">>
       /\ <<"d1", <<"f","3">>>> \in principals
       /\ "d1" \in assetStatus

(***************************************************************************)
(* C10: in get, getWithCsr and ack, once a step has failed no later        *)
(* pipeline step is executed: the only call made afterwards is the failure *)
(* publish; and no step is executed twice in the same invocation.          *)
(***************************************************************************)
\* a call whose outcome makes the operation throw
IsFailing(e) ==
    \/ ~e.ok
    \/ e.call = "isWhitelisted" /\ e.status = "false"
    \/ e.call = "headObject" /\ e.id = Undef

\* what was called, without what came back
Request(e) ==
    [e EXCEPT !.ok = TRUE, !.resp = NoResponse, !.names = <<>>, !.arns = <<>>,
              !.status = IF e.call = "updateCertificate" THEN @ ELSE "",
              !.id = IF e.call \in {"headObject", "registerCertificate"} THEN <<>> ELSE @]

NothingAfterFailure(r) ==
    LET n == Len(r.calls)
    IN /\ \A k \in 1..n :
             IsFailing(r.calls[k]) =>
                \/ k = n
                \/ k = n - 1 /\ IsFailurePublish(r, r.calls[n])
       /\ \A k \in 1..n : IsFailurePublish(r, r.calls[k]) => k = n /\ r.pc = "done"
       /\ (n > 0 /\ IsFailing(r.calls[n])) => r.pc \in {"catch", "done"}

NoStepTwice(r) ==
    \A i, j \in 1..Len(r.calls) : i < j => Request(r.calls[i]) # Request(r.calls[j])

\* a step taken from the catch block is the failure publish and changes nothing else
CatchOnlyPublishes ==
    \A p \in Procs :
        (inv[p].pc = "catch" /\ inv'[p] # inv[p]) =>
            /\ inv'[p].pc = "done"
            /\ Len(inv'[p].calls) = Len(inv[p].calls) + 1
            /\ IsFailurePublish(inv[p], inv'[p].calls[Len(inv'[p].calls)])
            /\ UNCHANGED registryVars

C10_FailFastNoRepeat ==
    /\ [](\A p \in Procs : NothingAfterFailure(inv[p]) /\ NoStepTwice(inv[p]))
    /\ [][CatchOnlyPublishes]_vars

\* getWithCsr failed at the second inherited policy; only the failure publish followed
C10_Witness ==
    LET r == inv[1]
        n == Len(r.calls)
    IN /\ r.op = "getWithCsr" /\ r.pc = "done"
       /\ n >= 3
       /\ r.calls[n - 1].call = "attachPolicy" /\ ~r.calls[n - 1].ok
       /\ r.calls[n - 2].call = "attachPolicy" /\ r.calls[n - 2].ok
       /\ IsFailurePublish(r, r.calls[n])
       /\ r.params # <<>>

(***************************************************************************)
(* C11: for every failing registry, authority or object-store call made    *)
(* inside get, getWithCsr or ack, the message published on the failure     *)
(* topic and the error raised to the caller is one of the named error      *)
(* codes, never the raw error of the underlying call.                      *)
(***************************************************************************)
\* the error codes that the operations name
NamedCodes ==
    { "DEVICE_NOT_WHITELISTED", "MISSING_CERTIFICATE_ID", "CERTIFICATE_NOT_FOUND",
      "UNABLE_TO_ACTIVATE_CERTIFICATE", "UNABLE_TO_PRESIGN_URL",
      "UNABLE_TO_GET_CA_CERTIFICATE", "UNABLE_TO_FETCH_CA_KEY",
      "UNABLE_TO_ISSUE_CERTIFICATE", "UNABLE_TO_REGISTER_CERTIFICATE",
      "UNABLE_TO_ATTACH_CERTIFICATE", "UNABLE_TO_ATTACH_POLICY",
      "UNABLE_TO_PUBLISH_RESPONSE" }

\* the calls on the registry, the authority and the object store
CollaboratorCalls ==
    { "isWhitelisted", "updateAssetStatus", "headObject", "updateCertificate",
      "getSignedUrl", "describeCACertificate", "issueCertificate", "waitFor",
      "getParameter", "registerCertificate", "attachThingPrincipal",
      "getEffectivePolicies", "attachPolicy", "removeThingFromThingGroup",
      "listThingPrincipals", "detachThingPrincipal", "listPrincipalThings",
      "listAttachedPolicies", "detachPolicy", "deleteCertificate" }

C11_NamedCodesOnly ==
    \A p \in Procs :
        LET r == inv[p]
            n == Len(r.calls)
        IN (/\ r.pc = "done" /\ n >= 2
            /\ r.calls[n - 1].call \in CollaboratorCalls /\ ~r.calls[n - 1].ok)
           => /\ r.result = "raised"
              /\ r.raised \in NamedCodes
              /\ IsFailurePublish(r, r.calls[n])
              /\ r.calls[n].resp.message \in NamedCodes

(***************************************************************************)
(* C12: updateAssetStatus(deviceId) is called in every invocation of get,  *)
(* getWithCsr or ack that ends in success, and is never called in an       *)
(* invocation that ends in failure.                                        *)
(***************************************************************************)
C12_AssetStatusIffSuccess ==
    \A p \in Procs :
        LET r == inv[p]
        IN r.pc = "done" =>
             /\ r.result = "returned" =>
                   \E i \in Idx(r, "updateAssetStatus") : r.calls[i].dev = r.deviceId
             /\ r.result = "raised" => Idx(r, "updateAssetStatus") = {}

(***************************************************************************)
(* C12, as the code has it: a get or getWithCsr that ends in success has   *)
(* called updateAssetStatus(deviceId) exactly once, right before the       *)
(* success publish; ack never calls it; an invocation that ends in failure *)
(* has called it only as its last step before the failure, that is when    *)
(* the call itself failed or when the success publish after it failed.     *)
(***************************************************************************)
C12_AssetStatusLastStep ==
    \A p \in Procs :
        LET r == inv[p]
            n == Len(r.calls)
            U == Idx(r, "updateAssetStatus")
        IN /\ Cardinality(U) <= 1
           /\ \A i \in U : r.calls[i].dev = r.deviceId
           /\ r.op = "ack" => U = {}
           /\ (r.pc = "done" /\ r.result = "returned" /\ r.op \in {"get", "getWithCsr"}) =>
                 /\ U = {n - 1}
                 /\ r.calls[n - 1].ok
                 /\ r.deviceId \in assetStatus
           /\ (r.pc = "done" /\ r.result = "raised") =>
                 \A i \in U :
                    \/ ~r.calls[i].ok /\ i = n - 1 /\ IsFailurePublish(r, r.calls[n])
                    \/ /\ r.calls[i].ok /\ i = n - 2
                       /\ IsSuccessPublish(r, r.calls[n - 1]) /\ ~r.calls[n - 1].ok
                       /\ IsFailurePublish(r, r.calls[n])

\* getWithCsr updated the asset status, then failed to publish the success
C12_Witness ==
    LET r == inv[1]
        n == Len(r.calls)
    IN /\ r.op = "getWithCsr" /\ r.pc = "done" /\ r.result = "raised"
       /\ r.raised = "UNABLE_TO_PUBLISH_RESPONSE"
       /\ n >= 3
       /\ r.calls[n - 2].call = "updateAssetStatus" /\ r.calls[n - 2].ok
       /\ r.deviceId \in assetStatus

(***************************************************************************)
(* C13: a successful get makes exactly these calls in this order:          *)
(* isWhitelisted, headObject on prefix+deviceId+suffix, updateCertificate  *)
(* to ACTIVE for the certificate ID of the staged object's metadata, a     *)
(* presigned getObject URL for the same key, updateAssetStatus, and the    *)
(* success publish whose location is that URL; no other certificate is     *)
(* set ACTIVE.                                                             *)
(***************************************************************************)
\* the names of the calls of an invocation, in order
CallNames(r) == [i \in 1..Len(r.calls) |-> r.calls[i].call]

C13_GetOrder ==
    \A p \in Procs :
        LET r == inv[p]
            F == r.calls
        IN /\ (r.op = "get" /\ r.pc = "done" /\ r.result = "returned") =>
                 /\ CallNames(r) = << "isWhitelisted", "headObject", "updateCertificate",
                                      "getSignedUrl", "updateAssetStatus", "publish" >>
                 /\ \A i \in 1..6 : F[i].ok
                 /\ F[1].dev = r.deviceId /\ F[1].status = "true"
                 /\ F[2].key = <<S3Prefix, r.deviceId, S3Suffix>>
                 /\ F[2].id \in CertIds
                 /\ F[3].id = F[2].id /\ F[3].status = "ACTIVE"
                 /\ F[4].key = F[2].key
                 /\ r.presignedUrl.operation = "getObject"
                 /\ r.presignedUrl.key = F[2].key
                 /\ r.presignedUrl.bucket = S3Bucket
                 /\ F[5].dev = r.deviceId
                 /\ IsSuccessPublish(r, F[6])
                 /\ F[6].resp.location = r.presignedUrl
                 /\ certs = [InitCerts EXCEPT ![F[2].id] = "ACTIVE"]
           /\ r.op = "get" =>
                 \A i \in Idx(r, "updateCertificate") :
                    /\ F[i].status = "ACTIVE"
                    /\ i > 1 /\ F[i - 1].call = "headObject" /\ F[i - 1].ok
                    /\ F[i].id = F[i - 1].id

\* the staged certificate f2 of device d2 was activated and its URL published
C13_Witness ==
    LET r == inv[1]
    IN /\ r.op = "get" /\ r.pc = "done" /\ r.result = "returned"
       /\ r.deviceId = "d2"
       /\ r.calls[2].id = <<"f","2">>
       /\ certs[<<"f","2">>] = "ACTIVE"
       /\ r.calls[6].resp.location.key = <<S3Prefix, "d2", S3Suffix>>

(***************************************************************************)
(* C14: in get, a failure before the publish step is reported with the     *)
(* code of the failing step: MISSING_CERTIFICATE_ID exactly when the       *)
(* lookup succeeds but carries no certificateid metadata,                  *)
(* CERTIFICATE_NOT_FOUND for every other failure of the lookup,            *)
(* UNABLE_TO_ACTIVATE_CERTIFICATE when setting ACTIVE fails,               *)
(* UNABLE_TO_PRESIGN_URL when signing fails; in the first two cases no     *)
(* certificate status is changed.                                          *)
(***************************************************************************)
\* the error that failed the pipeline is the one published and, if published, raised
ReportedAs(r, code) ==
    LET n == Len(r.calls)
    IN /\ r.err = code
       /\ r.pc = "done" =>
             /\ r.result = "raised"
             /\ IsFailurePublish(r, r.calls[n])
             /\ r.calls[n].resp.message = code
             /\ r.calls[n].ok => r.raised = code

\* the invocation made a call before it entered the catch block
HasLastStep(r) ==
    \/ r.pc = "catch" /\ Len(r.calls) >= 1
    \/ r.pc = "done" /\ r.result = "raised" /\ Len(r.calls) >= 2

\* the last call made before the catch block
LastStep(r) ==
    LET n == Len(r.calls)
    IN IF r.pc = "done" THEN r.calls[n - 1] ELSE r.calls[n]

C14_GetFailureCodes ==
    \A p \in Procs :
        LET r == inv[p]
            e == LastStep(r)
            NoMetadata == e.call = "headObject" /\ e.ok /\ e.id = Undef
        IN (r.op = "get" /\ HasLastStep(r))
           => /\ NoMetadata <=> r.err = "MISSING_CERTIFICATE_ID"
              /\ NoMetadata => ReportedAs(r, "MISSING_CERTIFICATE_ID")
              /\ (e.call = "headObject" /\ ~e.ok) => ReportedAs(r, "CERTIFICATE_NOT_FOUND")
              /\ e.call = "headObject" =>
                    /\ certs = InitCerts
                    /\ Idx(r, "updateCertificate") = {}
              /\ (e.call = "updateCertificate" /\ ~e.ok) =>
                    ReportedAs(r, "UNABLE_TO_ACTIVATE_CERTIFICATE")
              /\ (e.call = "getSignedUrl" /\ ~e.ok) => ReportedAs(r, "UNABLE_TO_PRESIGN_URL")

(***************************************************************************)
(* C15: on the managed-CA path of getWithCsr (acmpcaEnabled true), every   *)
(* failure of issuance, of the issue request itself or of the wait for     *)
(* the certificate to be issued, is surfaced as                            *)
(* UNABLE_TO_ISSUE_CERTIFICATE, and no registerCertificate call follows.   *)
(***************************************************************************)
C15_IssuanceFailureCode ==
    \A p \in Procs :
        LET r == inv[p]
        IN (/\ r.op = "getWithCsr" /\ cfg.acmpcaEnabled /\ HasLastStep(r)
            /\ LastStep(r).call \in {"issueCertificate", "waitFor"} /\ ~LastStep(r).ok)
           => /\ ReportedAs(r, "UNABLE_TO_ISSUE_CERTIFICATE")
              /\ Idx(r, "registerCertificate") = {}

(***************************************************************************)
(* C16: when getWithCsr inherits policies and the attach of the k-th       *)
(* inherited policy fails, the policies before k stay attached, no policy  *)
(* after k is attempted, the operation fails with UNABLE_TO_ATTACH_POLICY, *)
(* and neither updateAssetStatus nor a success publish occurs.             *)
(***************************************************************************)
C16_InheritedAttachFailure ==
    \A p \in Procs :
        LET r == inv[p]
            F == r.calls
        IN r.op = "getWithCsr" =>
             \A g \in Idx(r, "getEffectivePolicies") :
                \A j \in Idx(r, "attachPolicy") :
                   ~F[j].ok =>
                      LET k == j - g
                          names == F[g].names
                      IN /\ k \in 1..Len(names)
                         /\ Idx(r, "attachPolicy") = (g + 1)..(g + k)
                         /\ \A i \in 1..k :
                               /\ F[g + i].pol = names[i]
                               /\ F[g + i].id = r.certificateArn
                               /\ F[g + i].ok <=> i < k
                         /\ policies[ArnId(r.certificateArn)] =
                               { names[i] : i \in 1..(k - 1) }
                         /\ ReportedAs(r, "UNABLE_TO_ATTACH_POLICY")
                         /\ Idx(r, "updateAssetStatus") = {}
                         /\ \A i \in 1..Len(F) : ~IsSuccessPublish(r, F[i])
                         /\ r.deviceId \notin assetStatus

\* two policies inherited from f1; the first is attached, the second failed
C16_Witness ==
    LET r == inv[1]
        F == r.calls
    IN /\ r.op = "getWithCsr" /\ r.pc = "done" /\ r.result = "raised"
       /\ r.raised = "UNABLE_TO_ATTACH_POLICY"
       /\ r.previousCertificateId = <<"f","1">>
       /\ \E g \in Idx(r, "getEffectivePolicies") :
             /\ Len(F[g].names) = 2
             /\ F[g + 1].call = "attachPolicy" /\ F[g + 1].ok
             /\ F[g + 2].call = "attachPolicy" /\ ~F[g + 2].ok
             /\ policies[ArnId(r.certificateArn)] = {F[g].names[1]}

(***************************************************************************)
(* C17: in getWithCsr the decision between inheriting and defaulting is    *)
(* made once: an invocation that reaches the policy step calls             *)
(* getEffectivePolicies if and only if previousCertificateId is non-empty  *)
(* and useDefaultPolicy is false, and at most once; in no invocation are   *)
(* both the inherited set and the separately configured default policy     *)
(* attached.                                                               *)
(***************************************************************************)
\* the invocation has bound the new certificate and gone past the choice of policies
PastPolicyChoice(r) ==
    /\ \E i \in Idx(r, "attachThingPrincipal") : r.calls[i].ok
    /\ r.pc # "getEffectivePolicies"

C17_InheritOrDefault ==
    \A p \in Procs :
        LET r == inv[p]
            F == r.calls
            G == Idx(r, "getEffectivePolicies")
            Inherit == Truthy(r.previousCertificateId) /\ ~cfg.useDefaultPolicy
        IN r.op = "getWithCsr" =>
             /\ Cardinality(G) <= 1
             /\ G # {} => Inherit
             /\ PastPolicyChoice(r) => (G # {} <=> Inherit)
             /\ \A g \in G :
                   \A i \in Idx(r, "attachPolicy") :
                      /\ i > g /\ F[g].ok
                      /\ F[i].pol \in Range(F[g].names)
             /\ G = {} =>
                   /\ Cardinality(Idx(r, "attachPolicy")) <= 1
                   /\ \A i \in Idx(r, "attachPolicy") : F[i].pol = RotatedPolicy
             /\ r.certificateArn # Undef =>
                   \/ \E g \in G : policies[ArnId(r.certificateArn)] \subseteq Range(F[g].names)
                   \/ G = {} /\ policies[ArnId(r.certificateArn)] \subseteq {RotatedPolicy}

\* the policies of f1 were inherited: the default policy was attached as one of them only
C17_Witness ==
    LET r == inv[1]
    IN /\ r.op = "getWithCsr" /\ r.pc = "done" /\ r.result = "returned"
       /\ r.previousCertificateId = <<"f","1">> /\ ~cfg.useDefaultPolicy
       /\ Cardinality(Idx(r, "getEffectivePolicies")) = 1
       /\ Cardinality(Idx(r, "attachPolicy")) = 2
       /\ policies[ArnId(r.certificateArn)] = {"policy-a", RotatedPolicy}

(***************************************************************************)
(* C18: when ack is called with a non-empty previousCertificateId and      *)
(* cleanup is enabled, every principal of the device other than the one    *)
(* matching previousCertificateId stays bound, keeps its policies and      *)
(* status, and is not deleted; when previousCertificateId is absent, a     *)
(* cleanup that ran through the whole list has unbound every principal     *)
(* not matching certId.  A principal matches an id when the id of its      *)
(* certificate is that id.                                                 *)
(***************************************************************************)
\* the loop over the principals ran to its end
CleanupCompleted(r) ==
    /\ \E i \in Idx(r, "listThingPrincipals") : r.calls[i].ok
    /\ r.response.message = "OK"

C18_CleanupScope ==
    \A p \in Procs :
        LET r == inv[p]
        IN (r.op = "ack" /\ cfg.deletePreviousCertificate) =>
             /\ Truthy(r.previousCertificateId) =>
                   \A arn \in Listed(r) :
                      ArnId(arn) # r.previousCertificateId =>
                         /\ ChangesOf(r, arn) = {}
                         /\ <<r.deviceId, ArnId(arn)>> \in principals
                         /\ policies[ArnId(arn)] = InitPolicies[ArnId(arn)]
                         /\ certs[ArnId(arn)] = InitCerts[ArnId(arn)]
             /\ (~Truthy(r.previousCertificateId) /\ CleanupCompleted(r)) =>
                   \A arn \in Listed(r) :
                      ArnId(arn) # r.certId =>
                         /\ Unbound(r, arn)
                         /\ <<r.deviceId, ArnId(arn)>> \notin principals

(***************************************************************************)
(* C19: for every principal that cleanup deletes, the calls on it happen   *)
(* in this order: detachThingPrincipal from the device,                    *)
(* listPrincipalThings, detachPolicy for every policy attached to it,      *)
(* updateCertificate to INACTIVE, deleteCertificate; deleteCertificate is  *)
(* never called on a certificate that is still ACTIVE, still has a listed  *)
(* policy attached, or is still bound to the device.                       *)
(***************************************************************************)
\* the calls that end with the deleteCertificate at index d are the retirement of one principal
RetirementEndsAt(r, d) ==
    LET F == r.calls
        id == F[d].id
        arn == CertArn(id)
    IN \E l \in Idx(r, "listAttachedPolicies") :
          LET m == Len(F[l].names)
          IN /\ l > 2 /\ d = l + m + 2
             /\ F[l - 2].call = "detachThingPrincipal" /\ F[l - 2].ok
             /\ F[l - 2].dev = r.deviceId /\ F[l - 2].id = arn
             /\ F[l - 1].call = "listPrincipalThings" /\ F[l - 1].ok
             /\ F[l - 1].id = arn /\ F[l - 1].names = <<>>
             /\ F[l].ok /\ F[l].id = arn
             /\ \A i \in 1..m :
                   /\ F[l + i].call = "detachPolicy" /\ F[l + i].ok
                   /\ F[l + i].id = arn /\ F[l + i].pol = F[l].names[i]
             /\ F[d - 1].call = "updateCertificate" /\ F[d - 1].ok
             /\ F[d - 1].id = id /\ F[d - 1].status = "INACTIVE"

C19_RetirementOrder ==
    \A p \in Procs :
        LET r == inv[p]
        IN r.op = "ack" =>
             /\ \A d \in Idx(r, "deleteCertificate") : RetirementEndsAt(r, d)
             /\ r.pc = "deleteCertificate" =>
                   /\ certs[r.certificateId] = "INACTIVE"
                   /\ \A l \in Idx(r, "listAttachedPolicies") :
                         r.calls[l].id = CertArn(r.certificateId) =>
                            policies[r.certificateId] \cap Range(r.calls[l].names) = {}
                   /\ <<r.deviceId, r.certificateId>> \notin principals

\* f1 and its two policies were retired by an ack of d1 for f0
C19_Witness ==
    LET r == inv[1]
        F == r.calls
    IN /\ r.op = "ack" /\ r.pc = "done" /\ r.result = "returned"
       /\ \E d \in Idx(r, "deleteCertificate") :
             /\ F[d].ok /\ F[d].id = <<"f","1">>
             /\ d > 6
             /\ F[d - 2].call = "detachPolicy" /\ F[d - 3].call = "detachPolicy"
             /\ F[d - 5].call = "listPrincipalThings"
             /\ F[d - 6].call = "detachThingPrincipal"
       /\ certs[<<"f","1">>] = "deleted"
       /\ policies[<<"f","1">>] = {}

(***************************************************************************)
(* C20: when a call inside the cleanup loop fails, no further principal is *)
(* processed, ack ends in failure, and the resulting registry state is     *)
(* safe: the certificate matching certId is still registered, ACTIVE,      *)
(* bound to the device and keeps its policies, and no certificate still    *)
(* bound to any device has been deleted.                                   *)
(***************************************************************************)
\* the calls made in the body of the loop over the principals
LoopCalls ==
    { "detachThingPrincipal", "listPrincipalThings", "listAttachedPolicies",
      "detachPolicy", "updateCertificate", "deleteCertificate" }

C20_LoopFailureIsSafe ==
    \A p \in Procs :
        LET r == inv[p]
            F == r.calls
            n == Len(F)
        IN r.op = "ack" =>
             \A k \in 1..n :
                (F[k].call \in LoopCalls /\ ~F[k].ok) =>
                   /\ k = n \/ (k = n - 1 /\ IsFailurePublish(r, F[n]))
                   /\ r.pc \in {"catch", "done"}
                   /\ r.pc = "done" => r.result = "raised"
                   /\ \A i \in 1..n : ~IsSuccessPublish(r, F[i])
                   /\ \A arn \in Listed(r) :
                         Includes(arn, r.certId) =>
                            /\ Registered(ArnId(arn))
                            /\ certs[ArnId(arn)] = InitCerts[ArnId(arn)]
                            /\ ArnId(arn) = r.certId => certs[ArnId(arn)] = "ACTIVE"
                            /\ <<r.deviceId, ArnId(arn)>> \in principals
                            /\ policies[ArnId(arn)] = InitPolicies[ArnId(arn)]
                   /\ \A id \in CertIds : certs[id] = "deleted" => ~BoundToSomeDevice(id)

\* deactivating f1 failed: f1 is left unbound and without policies, f2 was not reached
C20_Witness ==
    LET r == inv[1]
        n == Len(r.calls)
    IN /\ r.op = "ack" /\ r.pc = "done" /\ r.result = "raised"
       /\ r.deviceId = "d1" /\ r.certId = <<"f","0">>
       /\ r.raised = "raw:updateCertificate"
       /\ r.calls[n - 1].call = "updateCertificate" /\ r.calls[n - 1].id = <<"f","1">>
       /\ CertArn(<<"f","2">>) \in Range(r.thingPrincipals)
       /\ <<"d1", <<"f","2">>>> \in principals
       /\ <<"d1", <<"f","0">>>> \in principals
       /\ certs[<<"f","0">>] = "ACTIVE" /\ certs[<<"f","1">>] = "ACTIVE"
       /\ policies[<<"f","1">>] = {}

(***************************************************************************)
(* C21: if an ack fails inside cleanup and the same ack (same deviceId,    *)
(* certId, previousCertificateId) is then repeated and succeeds, every     *)
(* non-current principal that was bound to the device before the first     *)
(* ack and is bound to no device afterwards ends up detached from its      *)
(* policies and deleted.                                                   *)
(***************************************************************************)
\* the invocation is an ack in which a call of the cleanup loop failed
FailedInCleanup(r) ==
    /\ r.op = "ack" /\ r.pc = "done" /\ r.result = "raised"
    /\ \E k \in 1..Len(r.calls) : r.calls[k].call \in LoopCalls /\ ~r.calls[k].ok

C21_RepeatAckRepairs ==
    LET a == inv[1]
        b == inv[2]
    IN (/\ FailedInCleanup(a)
        /\ b.op = "ack" /\ b.pc = "done" /\ b.result = "returned"
        /\ b.deviceId = a.deviceId /\ b.certId = a.certId
        /\ b.previousCertificateId = a.previousCertificateId)
       => \A arn \in Listed(a) :
             (ArnId(arn) # a.certId /\ ~BoundToSomeDevice(ArnId(arn))) =>
                /\ certs[ArnId(arn)] = "deleted"
                /\ policies[ArnId(arn)] = {}

(***************************************************************************)
(* C22: over a getWithCsr followed by an ack for the same device, the      *)
(* certificate issued by the successful getWithCsr is never deleted;       *)
(* deleteCertificate is applied only to a certificate that was bound to    *)
(* the device before that getWithCsr.                                      *)
(***************************************************************************)
C22_IssuedNeverDeleted ==
    LET g == inv[1]
        b == inv[2]
    IN (g.op = "getWithCsr" /\ g.result = "returned") =>
          /\ certs[ArnId(g.certificateArn)] # "deleted"
          /\ \A d \in Idx(b, "deleteCertificate") :
                /\ b.calls[d].id # ArnId(g.certificateArn)
                /\ <<g.deviceId, b.calls[d].id>> \in SeqPrincipals

(***************************************************************************)
(* C23: when deletePreviousCertificate is false, ack performs no listing,  *)
(* unbinding, policy detach, status change or delete of any principal:     *)
(* after the eligibility check its only registry call is                   *)
(* removeThingFromThingGroup, and every principal binding, policy          *)
(* attachment and certificate status is unchanged.                         *)
(***************************************************************************)
\* the calls that the cleanup makes
CleanupCalls == LoopCalls \cup {"listThingPrincipals"}

AckWithoutCleanupCalls ==
    \A p \in Procs :
        LET r == inv[p]
            F == r.calls
        IN (r.op = "ack" /\ ~cfg.deletePreviousCertificate) =>
             /\ \A i \in 1..Len(F) :
                   F[i].call \in {"isWhitelisted", "removeThingFromThingGroup", "publish"}
             /\ \A i \in Idx(r, "removeThingFromThingGroup") :
                   i = 2 /\ F[1].call = "isWhitelisted"
             /\ Cardinality(Idx(r, "removeThingFromThingGroup")) <= 1
             /\ certs = InitCerts
             /\ policies = InitPolicies
             /\ principals \in InitPrincipalSets

AckWithoutCleanupFrame ==
    (\E p \in Procs : inv[p].op = "ack" /\ ~cfg.deletePreviousCertificate)
        => UNCHANGED <<certs, principals, policies>>

C23_NoCleanupWhenDisabled ==
    /\ []AckWithoutCleanupCalls
    /\ [][AckWithoutCleanupFrame]_vars

\* an ack without cleanup succeeded for a device that has three principals
C23_Witness ==
    LET r == inv[1]
    IN /\ r.op = "ack" /\ r.pc = "done" /\ r.result = "returned"
       /\ ~cfg.deletePreviousCertificate
       /\ r.deviceId = "d1" /\ r.certId = <<"f","0">>
       /\ CallNames(r) = <<"isWhitelisted", "removeThingFromThingGroup", "publish">>
       /\ Cardinality({ b \in principals : b[1] = "d1" }) = 3
       /\ "d1" \notin rotateGroup

(***************************************************************************)
(* C24: in ack the device is removed from the pending-processing thing     *)
(* group after the eligibility check and before any cleanup call, and the  *)
(* success outcome with message OK is published only after cleanup (when   *)
(* enabled) has completed without error.                                   *)
(***************************************************************************)
C24_AckOrder ==
    \A p \in Procs :
        LET r == inv[p]
            F == r.calls
            n == Len(F)
        IN r.op = "ack" =>
             /\ \A i \in Idx(r, "removeThingFromThingGroup") :
                   /\ i = 2
                   /\ F[1].call = "isWhitelisted" /\ F[1].ok /\ F[1].status = "true"
                   /\ F[i].dev = r.deviceId
             /\ \A i \in 1..n :
                   F[i].call \in CleanupCalls =>
                      /\ i > 2
                      /\ F[2].call = "removeThingFromThingGroup" /\ F[2].ok
                      /\ r.deviceId \notin rotateGroup
             /\ \A i \in 1..n :
                   IsSuccessPublish(r, F[i]) =>
                      /\ F[i].resp.message = "OK"
                      /\ \A j \in 1..(i - 1) : F[j].ok
                      /\ \E j \in 1..(i - 1) : F[j].call = "removeThingFromThingGroup"
                      /\ cfg.deletePreviousCertificate =>
                            /\ \E j \in 1..(i - 1) : F[j].call = "listThingPrincipals"
                            /\ r.thingPrincipals = <<>>
                            /\ \A arn \in Listed(r) :
                                  \/ Includes(arn, r.certId)
                                  \/ /\ Truthy(r.previousCertificateId)
                                     /\ ~Includes(arn, r.previousCertificateId)
                                  \/ Unbound(r, arn)

\* an ack with cleanup published OK after it had retired a principal
C24_Witness ==
    LET r == inv[1]
        n == Len(r.calls)
    IN /\ r.op = "ack" /\ r.pc = "done" /\ r.result = "returned"
       /\ cfg.deletePreviousCertificate
       /\ r.calls[2].call = "removeThingFromThingGroup"
       /\ r.calls[n - 1].call = "deleteCertificate" /\ r.calls[n - 1].ok
       /\ r.calls[n].resp.message = "OK"
       /\ r.deviceId \notin rotateGroup

(***************************************************************************)
(* C25: in getWithCsr with request-level authority parameters, for each    *)
(* of the two identifiers (CA certificate ID, managed-CA ARN) the request  *)
(* is rejected before any authority call (describeCACertificate,           *)
(* issueCertificate) unless the alias or the explicit identifier resolves  *)
(* to a non-empty identifier; an empty-string identifier is rejected and   *)
(* never replaced silently by the configured default.                      *)
(***************************************************************************)
\* what the alias or the explicit identifier of the request resolves to
ResolvedCaId(a) == IF Truthy(a.awsiotCaAlias) THEN EnvCa(a.awsiotCaAlias) ELSE a.awsiotCaID

ResolvedCaArn(a) == IF Truthy(a.acmpcaCaAlias) THEN EnvPca(a.acmpcaCaAlias) ELSE a.acmpcaCaArn

C25_UnresolvedIdentifierRejected ==
    \A p \in Procs :
        LET r == inv[p]
            F == r.calls
            a == r.acmpcaParameters
        IN (r.op = "getWithCsr" /\ a.present) =>
             /\ (Idx(r, "describeCACertificate") \cup Idx(r, "issueCertificate")) # {} =>
                   Truthy(ResolvedCaId(a)) /\ Truthy(ResolvedCaArn(a))
             /\ \A i \in Idx(r, "describeCACertificate") : F[i].ca = ResolvedCaId(a)
             /\ \A i \in Idx(r, "issueCertificate") : F[i].ca = ResolvedCaArn(a)

(***************************************************************************)
(* C26: in getWithCsr, an alias that has no entry in the environment       *)
(* lookup table makes the request fail as a validation failure: a failure  *)
(* outcome is published and no authority call (describeCACertificate,      *)
(* issueCertificate, getParameter) and no registry mutation is made.       *)
(***************************************************************************)
AuthorityCalls == {"describeCACertificate", "issueCertificate", "getParameter"}

\* the request names an alias for which the environment has no entry
UnresolvedAlias(a) ==
    /\ a.present
    /\ \/ Truthy(a.awsiotCaAlias) /\ EnvCa(a.awsiotCaAlias) = Undef
       \/ Truthy(a.acmpcaCaAlias) /\ EnvPca(a.acmpcaCaAlias) = Undef

\* the invocation made no authority call and no mutation, and did not succeed
RejectedBeforeAuthority(r) ==
    /\ \A i \in 1..Len(r.calls) : r.calls[i].call \notin (AuthorityCalls \cup MutationCalls)
    /\ r.result # "returned"
    /\ r.pc = "done" => IsFailurePublish(r, r.calls[Len(r.calls)])

C26_UnresolvedAliasFails ==
    \A p \in Procs :
        LET r == inv[p]
        IN (r.op = "getWithCsr" /\ UnresolvedAlias(r.acmpcaParameters)) =>
              RejectedBeforeAuthority(r)

(***************************************************************************)
(* C26, as the code has it: in getWithCsr with acmpcaEnabled true, an      *)
(* alias that has no entry in the environment makes the request fail as a  *)
(* validation failure: a failure outcome is published and no authority     *)
(* call (describeCACertificate, issueCertificate, getParameter) and no     *)
(* registry mutation is made.                                              *)
(***************************************************************************)
C26_UnresolvedAliasFailsManagedCa ==
    \A p \in Procs :
        LET r == inv[p]
        IN (r.op = "getWithCsr" /\ cfg.acmpcaEnabled /\ UnresolvedAlias(r.acmpcaParameters)) =>
              RejectedBeforeAuthority(r)

\* the request with the unknown CA alias was rejected right after the eligibility check
C26_Witness ==
    LET r == inv[1]
    IN /\ r.op = "getWithCsr" /\ r.pc = "done" /\ r.result = "raised"
       /\ cfg.acmpcaEnabled
       /\ r.acmpcaParameters.awsiotCaAlias = AliasNope
       /\ r.raised = "Invalid awsiotCaAlias."
       /\ CallNames(r) = <<"isWhitelisted", "publish">>
       /\ r.calls[2].ok /\ r.calls[2].resp.message = "Invalid awsiotCaAlias."

(***************************************************************************)
(* C27: in getWithCsr, whenever request-level authority parameters are     *)
(* present and valid, the CA certificate is fetched with the request's CA  *)
(* ID and the certificate is issued by the request's authority, not by the *)
(* configured defaults, whichever backend the deployment is configured     *)
(* with; when they are absent, the configured defaults are used.           *)
(***************************************************************************)
\* both identifiers of the request resolve to a non-empty value
ValidParams(a) ==
    a.present /\ Truthy(ResolvedCaId(a)) /\ Truthy(ResolvedCaArn(a))

\* every authority call of the invocation names the CA id and the authority ARN given
AuthorityCallsUse(r, caId, caArn) ==
    \A i \in 1..Len(r.calls) :
        /\ r.calls[i].call \in {"describeCACertificate", "getParameter"} =>
              r.calls[i].ca = caId
        /\ r.calls[i].call = "issueCertificate" => r.calls[i].ca = caArn

C27_RequestOverridesDefaults ==
    \A p \in Procs :
        LET r == inv[p]
            a == r.acmpcaParameters
        IN r.op = "getWithCsr" =>
             /\ ValidParams(a) => AuthorityCallsUse(r, ResolvedCaId(a), ResolvedCaArn(a))
             /\ ~a.present => AuthorityCallsUse(r, CaCertificateId, AcmpcaCaArn)

(***************************************************************************)
(* C27, as the code has it: with acmpcaEnabled true, request parameters    *)
(* whose two identifiers resolve to non-empty values make getWithCsr fetch *)
(* the CA certificate with the request's CA ID and issue with the          *)
(* request's authority ARN; with acmpcaEnabled false, or without request   *)
(* parameters, the configured identifiers are used.                        *)
(***************************************************************************)
C27_RequestOverridesOnManagedCa ==
    \A p \in Procs :
        LET r == inv[p]
            a == r.acmpcaParameters
        IN r.op = "getWithCsr" =>
             /\ (cfg.acmpcaEnabled /\ ValidParams(a)) =>
                   /\ AuthorityCallsUse(r, ResolvedCaId(a), ResolvedCaArn(a))
                   /\ Idx(r, "getParameter") = {}
                   /\ r.pc = "done" /\ r.result = "returned" =>
                         /\ Idx(r, "describeCACertificate") # {}
                         /\ Idx(r, "issueCertificate") # {}
             /\ (~cfg.acmpcaEnabled \/ ~a.present) =>
                   AuthorityCallsUse(r, CaCertificateId, AcmpcaCaArn)
             /\ ~cfg.acmpcaEnabled => Idx(r, "issueCertificate") = {}

\* the aliases of the request were resolved and used for both authority calls
C27_Witness ==
    LET r == inv[1]
    IN /\ r.op = "getWithCsr" /\ r.pc = "done" /\ r.result = "returned"
       /\ cfg.acmpcaEnabled
       /\ r.acmpcaParameters.awsiotCaAlias = <<"A","l","i","a","s","1">>
       /\ \E i \in Idx(r, "describeCACertificate") : r.calls[i].ca = <<"c","a","-","a","l","i","a","s","1">>
       /\ \E i \in Idx(r, "issueCertificate") : r.calls[i].ca = <<"p","c","a","-","a","l","i","a","s","1">>

(***************************************************************************)
(* C28: an empty required field (deviceId in get; deviceId or csr in       *)
(* getWithCsr; deviceId or certId in ack) is rejected before any side      *)
(* effect: no collaborator call other than the failure-outcome publish is  *)
(* made, not even isWhitelisted.                                           *)
(***************************************************************************)
\* a required field of the request is empty or missing
InvalidRequest(r) ==
    /\ r.op # "none"
    /\ \/ r.deviceId = ""
       \/ r.op = "getWithCsr" /\ r.csr = ""
       \/ r.op = "ack" /\ ~Truthy(r.certId)

C28_ValidationBeforeSideEffects ==
    \A p \in Procs :
        LET r == inv[p]
        IN InvalidRequest(r) =>
             /\ \A i \in 1..Len(r.calls) : IsFailurePublish(r, r.calls[i])
             /\ Len(r.calls) <= 1
             /\ r.result # "returned"
             /\ r.pc \in {"catch", "done"}
             /\ certs = InitCerts /\ policies = InitPolicies
             /\ principals \in InitPrincipalSets
             /\ rotateGroup = Devices /\ assetStatus = {}

\* a getWithCsr with an empty csr published its rejection and made no other call
C28_Witness ==
    LET r == inv[1]
    IN /\ r.op = "getWithCsr" /\ r.pc = "done" /\ r.result = "raised"
       /\ r.deviceId = "d1" /\ r.csr = ""
       /\ r.raised = OwString
       /\ Len(r.calls) = 1
       /\ IsFailurePublish(r, r.calls[1]) /\ r.calls[1].resp.message = OwString

(***************************************************************************)
(* C29: on the managed-CA path the issued certificate is the leaf          *)
(* certificate followed by a newline and the certificate chain, and this   *)
(* same concatenated string is the one passed to registerCertificate and   *)
(* the one published as the certificate in the success outcome.            *)
(***************************************************************************)
C29_PemBundle ==
    \A p \in Procs :
        LET r == inv[p]
            F == r.calls
            bundle == LeafPem \o <<"\n">> \o ChainPem
        IN (r.op = "getWithCsr" /\ cfg.acmpcaEnabled) =>
             /\ \A i \in Idx(r, "registerCertificate") :
                   /\ F[i].cert = bundle
                   /\ i > 1 /\ F[i - 1].call = "waitFor" /\ F[i - 1].ok
             /\ \A i \in 1..Len(F) :
                   IsSuccessPublish(r, F[i]) =>
                      /\ F[i].resp.certificate = bundle
                      /\ \E j \in Idx(r, "registerCertificate") :
                            j < i /\ F[j].ok /\ F[j].cert = F[i].resp.certificate

\* a certificate issued by the managed CA was registered and published as leaf, newline, chain
C29_Witness ==
    LET r == inv[1]
        n == Len(r.calls)
    IN /\ r.op = "getWithCsr" /\ r.pc = "done" /\ r.result = "returned"
       /\ cfg.acmpcaEnabled
       /\ r.calls[n].resp.certificate = <<"LEAF", "\n", "CHAIN">>
       /\ \E j \in Idx(r, "registerCertificate") :
             r.calls[j].ok /\ r.calls[j].cert = <<"LEAF", "\n", "CHAIN">>

(***************************************************************************)
(* C30: the certificateId published by a successful getWithCsr is the      *)
(* trailing '/'-separated segment of the ARN returned by                   *)
(* registerCertificate, for every ARN shape (more than one '/' included),  *)
(* and it is the same id that cleanup later derives from that principal.   *)
(***************************************************************************)
\* position of the last '/' at or before i, or 0
RECURSIVE LastSlash(_, _)
LastSlash(s, i) ==
    IF i = 0 THEN 0
    ELSE IF s[i] = "/" THEN i
    ELSE LastSlash(s, i - 1)

\* the segment after the last '/'
TrailingSegment(s) == SubSeq(s, LastSlash(s, Len(s)) + 1, Len(s))

C30_PublishedIdIsTrailingSegment ==
    LET g == inv[1]
        a == inv[2]
    IN /\ \A i \in 1..Len(g.calls) :
             IsSuccessPublish(g, g.calls[i]) =>
                g.calls[i].resp.certificateId = TrailingSegment(g.certificateArn)
       /\ (a.pc = "listAttachedPolicies" /\ a.principal = g.certificateArn) =>
             /\ a.certificateId = TrailingSegment(a.principal)
             /\ \A i \in 1..Len(g.calls) :
                   IsSuccessPublish(g, g.calls[i]) =>
                      g.calls[i].resp.certificateId = a.certificateId

(***************************************************************************)
(* C31: two invocations for different devices that share no principal do   *)
(* not interfere: whatever the interleaving of their collaborator calls,   *)
(* the final registry state and the outcome published for each device are  *)
(* those of running one invocation after the other. In a run of one after  *)
(* the other an invocation reads the registry either as it was before the  *)
(* other invocation or as the other invocation left it, and the state of a *)
(* device is changed by its own invocation only.                           *)
(***************************************************************************)
\* the ids of the principals that the successful calls named call of r were made on
IdsOf(r, call) ==
    { ArnId(r.calls[i].id) : i \in { j \in Idx(r, call) : r.calls[j].ok } }

BothEnded == \A p \in Procs : inv[p].pc = "done"

C31_NoInterference ==
    BothEnded =>
      \A p \in Procs :
         LET r == inv[p]
             d == DeviceOf(p)
         IN /\ { b[2] : b \in { x \in principals : x[1] = d } } =
                 ({ b[2] : b \in { x \in ParPrincipals : x[1] = d } }
                     \ IdsOf(r, "detachThingPrincipal")) \cup IdsOf(r, "attachThingPrincipal")
            /\ (d \in assetStatus) = (Idx(r, "updateAssetStatus") # {} /\
                                       \A i \in Idx(r, "updateAssetStatus") : r.calls[i].ok)
            /\ \A g \in Idx(r, "getEffectivePolicies") :
                  (r.calls[g].ok /\ r.result = "returned") =>
                     /\ Range(r.calls[g].names) \in
                           { InitPolicies[r.previousCertificateId],
                             PoliciesOf(r.previousCertificateId) }
                     /\ policies[ArnId(r.certificateArn)] \in
                           { InitPolicies[r.previousCertificateId],
                             PoliciesOf(r.previousCertificateId) }

(***************************************************************************)
(* C32: cleanup exempts a principal as the current certificate exactly     *)
(* when the principal's certificate id equals certId, and selects a        *)
(* principal as the named previous certificate exactly when its            *)
(* certificate id equals previousCertificateId; a principal whose          *)
(* identifier only contains certId (or previousCertificateId) as a proper  *)
(* part is treated as a different certificate.                             *)
(***************************************************************************)
C32_ExactIdMatch ==
    \A p \in Procs :
        LET r == inv[p]
        IN (r.op = "ack" /\ cfg.deletePreviousCertificate /\ CleanupCompleted(r)) =>
             \A arn \in Listed(r) :
                Unbound(r, arn) <=>
                   /\ ArnId(arn) # r.certId
                   /\ Truthy(r.previousCertificateId) =>
                         ArnId(arn) = r.previousCertificateId

(***************************************************************************)
(* C33: after a successful ack with cleanup enabled and no                 *)
(* previousCertificateId the device is back in steady state: every         *)
(* principal still bound to the device matches certId, so a device that    *)
(* had two principals during rotation has at most one afterwards.          *)
(***************************************************************************)
BoundTo(d) == { b[2] : b \in { x \in principals : x[1] = d } }

C33_SteadyStateAfterAck ==
    LET r == inv[1]
    IN (r.op = "ack" /\ r.result = "returned" /\ cfg.deletePreviousCertificate
           /\ ~Truthy(r.previousCertificateId)) =>
          /\ \A id \in BoundTo(r.deviceId) : Includes(CertArn(id), r.certId)
          /\ Cardinality(BoundTo(r.deviceId)) <= 1

(***************************************************************************)
(* C34: the engine performs no compensation on failure.  When getWithCsr   *)
(* fails at or after registerCertificate the effects already applied stay  *)
(* in place (the certificate registered as active, bound to the device if  *)
(* the binding was made, with the policies attached so far) and no         *)
(* detach, deactivate or delete call is made; when ack fails after         *)
(* removeThingFromThingGroup the device stays removed from the group.      *)
(***************************************************************************)
CompensationCalls ==
    { "detachThingPrincipal", "detachPolicy", "updateCertificate", "deleteCertificate" }

Failed(r) == r.pc = "catch" \/ (r.pc = "done" /\ r.result = "raised")

C34_NoCompensation ==
    LET r == inv[1]
        new == ArnId(r.certificateArn)
    IN /\ (r.op = "getWithCsr" /\ Failed(r) /\ Idx(r, "registerCertificate") # {}) =>
             /\ Range(CallNames(r)) \cap CompensationCalls = {}
             /\ \A i \in Idx(r, "registerCertificate") :
                   IF r.calls[i].ok
                     THEN /\ certs[new] = "ACTIVE"
                          /\ (<<r.deviceId, new>> \in principals) =
                                (\E j \in Idx(r, "attachThingPrincipal") : r.calls[j].ok)
                          /\ policies[new] = AttachedBy(r, r.certificateArn)
                   ELSE certs = InitCerts /\ principals \in InitPrincipalSets
                        /\ policies = InitPolicies
       /\ (r.op = "ack" /\ Failed(r)
              /\ \E i \in Idx(r, "removeThingFromThingGroup") : r.calls[i].ok) =>
             r.deviceId \notin rotateGroup

\* getWithCsr failed on its second policy: the new certificate is active, bound, with the first
C34_Witness ==
    LET r == inv[1]
        new == ArnId(r.certificateArn)
    IN /\ r.op = "getWithCsr" /\ r.pc = "done" /\ r.result = "raised"
       /\ r.raised = "UNABLE_TO_ATTACH_POLICY"
       /\ certs[new] = "ACTIVE"
       /\ <<r.deviceId, new>> \in principals
       /\ Cardinality(policies[new]) = 1

\* ack failed in its cleanup: the device is out of the rotation group
C34_WitnessAck ==
    LET r == inv[1]
    IN /\ r.op = "ack" /\ r.pc = "done" /\ r.result = "raised"
       /\ "detachThingPrincipal" \in Range(CallNames(r))
       /\ r.deviceId \notin rotateGroup

(***************************************************************************)
(* C35: every invocation of get, getWithCsr or ack eventually terminates   *)
(* (returns or raises), provided every collaborator call eventually        *)
(* returns or fails and the lists returned by the registry are finite; the *)
(* per-principal and per-policy loops visit each listed element at most    *)
(* once.                                                                   *)
(***************************************************************************)
\* the calls named call that the invocation made on id with policy pol
CallsOn(r, call, id, pol) ==
    { i \in Idx(r, call) : r.calls[i].id = id /\ r.calls[i].pol = pol }

EachElementOnce ==
    LET r == inv[1]
    IN /\ \A arn \in Listed(r) :
             /\ Cardinality(CallsOn(r, "detachThingPrincipal", arn, "")) <= 1
             /\ Cardinality(CallsOn(r, "listPrincipalThings", arn, "")) <= 1
             /\ \A pol \in PolicyNames :
                   Cardinality(CallsOn(r, "detachPolicy", arn, pol)) <= 1
       /\ \A pol \in PolicyNames :
             Cardinality(CallsOn(r, "attachPolicy", r.certificateArn, pol)) <= 1
       /\ \A i \in Idx(r, "detachThingPrincipal") : r.calls[i].id \in Listed(r)
       /\ \A i \in Idx(r, "detachPolicy") : r.calls[i].id \in Listed(r)

C35_Termination ==
    /\ (inv[1].op # "none") ~> (inv[1].pc = "done")
    /\ []EachElementOnce

\* an ack ended after its loops detached two principals and two policies of one of them
C35_Witness ==
    LET r == inv[1]
    IN /\ r.op = "ack" /\ r.pc = "done" /\ r.result = "returned"
       /\ Cardinality(Idx(r, "detachThingPrincipal")) = 2
       /\ \E arn \in Listed(r) :
             /\ CallsOn(r, "detachPolicy", arn, "policy-a") # {}
             /\ CallsOn(r, "detachPolicy", arn, "policy-default") # {}

(***************************************************************************)
(* Reading the call log of a PresignedUrlsService request                  *)
(***************************************************************************)
PIdx(name) == { i \in 1..Len(presigned.calls) : presigned.calls[i].call = name }

PServing == presigned.pc # "idle"

\* the responses that the request published, and the one it returned
PPublished == { presigned.calls[i].payload : i \in { j \in PIdx("publish") : presigned.calls[j].ok } }

PReturned == IF presigned.pc = "done" /\ presigned.result = "returned" THEN {presigned.r} ELSE {}

(***************************************************************************)
(* C36: generateForUpload and generateForDownload never hand a presigned   *)
(* URL to a device that is not a target of the command's job: when the     *)
(* thing is neither an explicit target of the job nor a member of a thing  *)
(* group targeted by the job, the returned and published response has      *)
(* status FAILED and no presignedUrls, and no URL is signed.               *)
(***************************************************************************)
\* the job was read, and it names the thing or a group the registry listed for the thing
KnownTarget ==
    /\ presigned.job.defined
    /\ \/ ExplicitTarget(presigned.thingName, presigned.job)
       \/ \E i \in PIdx("listThingGroupsForThing") :
             presigned.calls[i].ok /\ presigned.calls[i].arns \cap presigned.job.targets # {}

C36_OnlyTargetsGetUrls ==
    (PServing /\ ~KnownTarget) =>
       /\ PIdx("getSignedUrl") = {}
       /\ \A resp \in PPublished \cup PReturned :
             resp.status = "FAILED" /\ ~resp.hasPresignedUrls /\ resp.presignedUrls = {}

\* d1 asked for a download of a job that targets d2 and a group; the registry lists for
\* d1 a group of the same name under another ARN
C36_Witness ==
    /\ presigned.op = "generateForDownload" /\ presigned.thingName = ThingD1
    /\ presigned.pc = "done" /\ presigned.result = "returned"
    /\ presigned.job.targets = {ThingArnD2, GroupArnG1}
    /\ \E i \in PIdx("listThingGroupsForThing") :
          presigned.calls[i].ok /\ presigned.calls[i].arns = {GroupArnG1Elsewhere}
    /\ presigned.err = "FORBIDDEN"
    /\ presigned.r.status = "FAILED" /\ ~presigned.r.hasPresignedUrls

(***************************************************************************)
(* C37: generateForUpload and generateForDownload publish their response   *)
(* on the topic of the request's own direction: an upload request on       *)
(* .../uploads/accepted on success and .../uploads/rejected on failure, a  *)
(* download request on .../downloads/accepted and .../downloads/rejected;  *)
(* the response published on a rejected topic has status FAILED and the    *)
(* one on an accepted topic has status SUCCESS.                            *)
(***************************************************************************)
OwnDirection == IF presigned.op = "generateForUpload" THEN "uploads" ELSE "downloads"

C37_OwnDirectionTopic ==
    PServing =>
       \A i \in PIdx("publish") :
          LET e == presigned.calls[i]
          IN /\ e.direction = OwnDirection
             /\ e.outcome = "accepted" <=> e.payload.status = "SUCCESS"
             /\ e.outcome = "rejected" <=> e.payload.status = "FAILED"

(***************************************************************************)
(* C38: generateForDownload is all-or-nothing over the requested aliases:  *)
(* if any requested alias is not in the template's requiredFiles, the      *)
(* response has status FAILED and carries no presigned URL at all,         *)
(* including for aliases that were valid and processed before the invalid  *)
(* one; more generally a response with status FAILED never carries         *)
(* presignedUrls.                                                          *)
(***************************************************************************)
C38_FailedCarriesNoUrls ==
    PServing =>
       \A resp \in PPublished \cup PReturned :
          /\ (/\ presigned.op = "generateForDownload"
              /\ presigned.err = "INVALID_ALIAS") =>
                resp.status = "FAILED" /\ ~resp.hasPresignedUrls
          /\ (/\ presigned.op = "generateForDownload"
              /\ \E i \in PIdx("templateService.get") : presigned.calls[i].ok
              /\ \E k \in Range(presigned.requested) :
                    k \notin presigned.template.requiredFiles) =>
                resp.status = "FAILED" /\ ~resp.hasPresignedUrls
          /\ resp.status = "FAILED" => ~resp.hasPresignedUrls /\ resp.presignedUrls = {}

(***************************************************************************)
(* C39: the ACMPCA client factory caches its client: over any sequence of  *)
(* factory calls a new client is constructed and (re)bound only when no    *)
(* client is bound yet or when the STS token is about to expire; otherwise *)
(* the call returns the already bound instance, and with no cross-account  *)
(* role (expiry never set) the client is constructed exactly once.         *)
(***************************************************************************)
\* a call of the factory constructs a client only when it has to
ConstructsOnlyWhenNeeded ==
    (factory'.calls = factory.calls + 1) =>
       LET needed == \/ ~factory.bound
                     \/ IsStsTokenAboutToExpire(factory.acmPcaStsExpiresAt, factory.now).value
       IN /\ (factory'.constructed # factory.constructed) => needed
          /\ ~needed => factory'.returned = factory.client /\ factory'.client = factory.client

ConstructedOnceWithoutRole ==
    (~factory.crossAccountRole /\ factory.calls >= 1) => factory.constructed = 1

C39_FactoryCaches == []ConstructedOnceWithoutRole /\ [][ConstructsOnlyWhenNeeded]_vars

====
